---------------------------- MODULE Spec2Model ----------------------------
(***************************************************************************)
(* A model of dunamai (src/dunamai/__init__.py): the tag pattern matcher,  *)
(* the Version entity with parse / serialize / bump, the three style       *)
(* serializers, check_version and bump_version.                            *)
(*                                                                         *)
(* Conventions.                                                            *)
(*  - A Python str is a sequence of one-character strings:                 *)
(*    "v1.0" is <<"v", "1", ".", "0">>.                                    *)
(*  - An Optional value is a sequence of length <= 1: None is <<>> and a   *)
(*    set value x is <<x>>.                                                *)
(*  - A call's outcome is a record [kind, val]: kind "ok" carries the      *)
(*    returned value, any other kind names the exception raised.           *)
(*  - Offsets into a str are 0-based, as in Python; s[i+1] is the          *)
(*    character at offset i.                                               *)
(***************************************************************************)
EXTENDS Integers, Sequences, FiniteSets, TLC

VARIABLES op, args, ret, self

vars == <<op, args, ret, self>>

-----------------------------------------------------------------------------
(* Optional values and outcomes *)

None == << >>

Some(x) == << x >>

IsNone(o) == o = << >>

IsSet(o) == o # << >>

Get(o) == o[1]

Ok(v) == [kind |-> "ok", val |-> v]

Raise(k) == [kind |-> k, val |-> << >>]

IsOk(r) == r.kind = "ok"

-----------------------------------------------------------------------------
(* Characters *)

Digit == {"0", "1", "2", "3", "4", "5", "6", "7", "8", "9"}

Lower == {"a", "b", "c", "d", "e", "f", "g", "h", "i", "j", "k", "l", "m",
          "n", "o", "p", "q", "r", "s", "t", "u", "v", "w", "x", "y", "z"}

Upper == {"A", "B", "C", "D", "E", "F", "G", "H", "I", "J", "K", "L", "M",
          "N", "O", "P", "Q", "R", "S", "T", "U", "V", "W", "X", "Y", "Z"}

Alpha == Lower \cup Upper

AlNum == Alpha \cup Digit

DigitVal(ch) ==
    CASE ch = "0" -> 0 [] ch = "1" -> 1 [] ch = "2" -> 2 [] ch = "3" -> 3
      [] ch = "4" -> 4 [] ch = "5" -> 5 [] ch = "6" -> 6 [] ch = "7" -> 7
      [] ch = "8" -> 8 [] ch = "9" -> 9

DigitChr(n) ==
    CASE n = 0 -> "0" [] n = 1 -> "1" [] n = 2 -> "2" [] n = 3 -> "3"
      [] n = 4 -> "4" [] n = 5 -> "5" [] n = 6 -> "6" [] n = 7 -> "7"
      [] n = 8 -> "8" [] n = 9 -> "9"

LowerOf(ch) ==
    CASE ch = "A" -> "a" [] ch = "B" -> "b" [] ch = "C" -> "c" [] ch = "D" -> "d"
      [] ch = "E" -> "e" [] ch = "F" -> "f" [] ch = "G" -> "g" [] ch = "H" -> "h"
      [] ch = "I" -> "i" [] ch = "J" -> "j" [] ch = "K" -> "k" [] ch = "L" -> "l"
      [] ch = "M" -> "m" [] ch = "N" -> "n" [] ch = "O" -> "o" [] ch = "P" -> "p"
      [] ch = "Q" -> "q" [] ch = "R" -> "r" [] ch = "S" -> "s" [] ch = "T" -> "t"
      [] ch = "U" -> "u" [] ch = "V" -> "v" [] ch = "W" -> "w" [] ch = "X" -> "x"
      [] ch = "Y" -> "y" [] ch = "Z" -> "z" [] OTHER -> ch

(* str.lower() *)
StrLower(s) == [k \in 1..Len(s) |-> LowerOf(s[k])]

(* str(n) for an int n *)
RECURSIVE NatStr(_)
NatStr(n) == IF n < 10 THEN <<DigitChr(n)>>
             ELSE NatStr(n \div 10) \o <<DigitChr(n % 10)>>

IntStr(n) == IF n < 0 THEN <<"-">> \o NatStr(0 - n) ELSE NatStr(n)

RECURSIVE DigitsVal(_,_)
DigitsVal(s, acc) ==
    IF s = << >> THEN acc
    ELSE IF Head(s) = "_" THEN DigitsVal(Tail(s), acc)
    ELSE DigitsVal(Tail(s), 10 * acc + DigitVal(Head(s)))

(* The ASCII characters for which str.isspace() holds: space, tab, line    *)
(* feed, vertical tab, form feed, carriage return and the four separators  *)
(* 0x1c .. 0x1f.  str.strip() drops them and \s of a str pattern matches   *)
(* them.                                                                   *)
Whitespace == {" ", "\t", "\n", "", "\f", "\r", "", "", "", ""}

(* s[a:b] for 0 <= a, with Python's clipping of b to len(s) *)
Slice(s, a, b) ==
    LET hi == IF b > Len(s) THEN Len(s) ELSE b
    IN  IF hi <= a THEN << >> ELSE [k \in 1..(hi - a) |-> s[a + k]]

(* str.strip(): leading and trailing whitespace is dropped *)
RECURSIVE Strip(_)
Strip(s) ==
    IF s # << >> /\ Head(s) \in Whitespace THEN Strip(Tail(s))
    ELSE IF s # << >> /\ s[Len(s)] \in Whitespace THEN Strip(Slice(s, 0, Len(s) - 1))
    ELSE s

(* int(s): surrounding whitespace is dropped; then an optional sign, then  *)
(* digits, where single underscores may separate digits; anything else     *)
(* raises ValueError.  For an ASCII string the whitespace of int() is C's  *)
(* isspace(): the separators 0x1c .. 0x1f are not dropped and make the     *)
(* text invalid.  (Non-ASCII digits and spaces are outside the model's     *)
(* alphabet.)                                                              *)
PyInt(s) ==
    CHOOSE r \in {
        LET signed == text # << >> /\ Head(text) \in {"+", "-"}
            body   == IF signed THEN Tail(text) ELSE text
            wellFormed ==
                /\ body # << >>
                /\ \A k \in 1..Len(body) : body[k] \in Digit \cup {"_"}
                /\ body[1] \in Digit
                /\ body[Len(body)] \in Digit
                /\ \A k \in 1..(Len(body) - 1) : ~(body[k] = "_" /\ body[k+1] = "_")
        IN  IF ~wellFormed THEN Raise("ValueError")
            ELSE IF signed /\ Head(text) = "-" THEN Ok(0 - DigitsVal(body, 0))
            ELSE Ok(DigitsVal(body, 0)) :
        text \in { LET space == Whitespace \ {"", "", "", ""}
                       inner == { k \in 1..Len(t) : t[k] \notin space }
                   IN  IF inner = {} THEN << >>
                       ELSE SubSeq(t, CHOOSE k \in inner : \A j \in inner : k <= j,
                                      CHOOSE k \in inner : \A j \in inner : j <= k) :
                   t \in {s} } } : TRUE

(* sep.join(parts) *)
RECURSIVE Join(_,_)
Join(parts, sep) ==
    IF parts = << >> THEN << >>
    ELSE IF Len(parts) = 1 THEN parts[1]
    ELSE parts[1] \o sep \o Join(Tail(parts), sep)

(* s.split(sep) for a one-character separator *)
RECURSIVE SplitFrom(_,_,_)
SplitFrom(s, seps, cur) ==
    IF s = << >> THEN <<cur>>
    ELSE IF Head(s) \in seps THEN <<cur>> \o SplitFrom(Tail(s), seps, << >>)
    ELSE SplitFrom(Tail(s), seps, Append(cur, Head(s)))

Split(s, ch) == SplitFrom(s, {ch}, << >>)

-----------------------------------------------------------------------------
(* Regular expressions: Python's backtracking matcher.                     *)
(*                                                                         *)
(* A pattern is a tree of nodes [t, ...].  Run(r, s, i, c) is the sequence *)
(* of ways r can match s starting at offset i with the groups captured so  *)
(* far c, in the order in which the backtracking matcher tries them        *)
(* (greedy quantifiers try the longest first, alternatives left to         *)
(* right).  Each way is [e |-> end offset, c |-> captures].                *)

GroupNames == {"epoch", "base", "stage", "revision", "tagged_metadata", "release", "num"}

NoCaps == [g \in GroupNames |-> None]

Chr(set) == [t |-> "cls", set |-> set]

Lit(ch) == [t |-> "cls", set |-> {ch}]

AnyChr == [t |-> "any"]

Bol == [t |-> "bol"]

Eol == [t |-> "eol"]

Cat(parts) == [t |-> "cat", parts |-> parts]

Alt(parts) == [t |-> "alt", parts |-> parts]

Opt(r) == [t |-> "opt", r |-> r]

Star(r) == [t |-> "star", r |-> r]

Plus(r) == [t |-> "cat", parts |-> <<r, [t |-> "star", r |-> r]>>]

Group(name, r) == [t |-> "grp", name |-> name, r |-> r]

RECURSIVE Run(_,_,_,_), RunCat(_,_,_,_,_), CatEach(_,_,_,_,_), RunAlt(_,_,_,_,_), RunStar(_,_,_,_), StarEach(_,_,_,_,_), Capture(_,_,_,_,_)

Run(r, s, i, c) ==
    CASE r.t = "cls" ->
            IF i < Len(s) /\ s[i+1] \in r.set THEN <<[e |-> i + 1, c |-> c]>> ELSE << >>
      [] r.t = "any" ->
            IF i < Len(s) /\ s[i+1] # "\n" THEN <<[e |-> i + 1, c |-> c]>> ELSE << >>
      [] r.t = "bol" -> IF i = 0 THEN <<[e |-> i, c |-> c]>> ELSE << >>
      [] r.t = "eol" ->
            IF i = Len(s) \/ (i = Len(s) - 1 /\ s[Len(s)] = "\n")
            THEN <<[e |-> i, c |-> c]>> ELSE << >>
      [] r.t = "cat" -> RunCat(r.parts, 1, s, i, c)
      [] r.t = "alt" -> RunAlt(r.parts, 1, s, i, c)
      [] r.t = "opt" -> Run(r.r, s, i, c) \o <<[e |-> i, c |-> c]>>
      [] r.t = "star" -> RunStar(r.r, s, i, c)
      [] r.t = "grp" -> Capture(r.name, Run(r.r, s, i, c), 1, s, i)

RunCat(parts, k, s, i, c) ==
    IF k > Len(parts) THEN <<[e |-> i, c |-> c]>>
    ELSE CatEach(Run(parts[k], s, i, c), 1, parts, k, s)

CatEach(ways, n, parts, k, s) ==
    IF n > Len(ways) THEN << >>
    ELSE RunCat(parts, k + 1, s, ways[n].e, ways[n].c) \o CatEach(ways, n + 1, parts, k, s)

RunAlt(parts, k, s, i, c) ==
    IF k > Len(parts) THEN << >>
    ELSE Run(parts[k], s, i, c) \o RunAlt(parts, k + 1, s, i, c)

RunStar(r, s, i, c) ==
    StarEach(Run(r, s, i, c), 1, r, s, i) \o <<[e |-> i, c |-> c]>>

(* After an iteration that consumed text the loop goes on; an iteration    *)
(* that matched the empty string is kept, with the groups it set, and the  *)
(* loop ends there.                                                        *)
StarEach(ways, n, r, s, i) ==
    IF n > Len(ways) THEN << >>
    ELSE (IF ways[n].e > i THEN RunStar(r, s, ways[n].e, ways[n].c) ELSE <<ways[n]>>)
         \o StarEach(ways, n + 1, r, s, i)

Capture(name, ways, n, s, i) ==
    IF n > Len(ways) THEN << >>
    ELSE <<[e |-> ways[n].e,
            c |-> [ways[n].c EXCEPT ![name] = Some(Slice(s, i, ways[n].e))]]>>
         \o Capture(name, ways, n + 1, s, i)

(* The first of the ways, or None *)
First(ways) == IF ways = << >> THEN None ELSE Some(ways[1])

(* re.match(r, s): the first way to match at offset 0, or None.  Python    *)
(* evaluates an argument once, before the call: here and below a value     *)
(* that is computed once is bound by a set constructor over a singleton.   *)
ReMatch(r, s) ==
    CHOOSE m \in { First(Run(r, t, 0, NoCaps)) : t \in {s} } : TRUE

RECURSIVE SearchFrom(_,_,_)
SearchFrom(r, s, i) ==
    IF i > Len(s) THEN None
    ELSE LET ways == Run(r, s, i, NoCaps)
         IN  IF ways # << >> THEN Some(ways[1]) ELSE SearchFrom(r, s, i + 1)

(* re.search(r, s): the first way to match at the leftmost offset, or None *)
ReSearch(r, s) ==
    CHOOSE m \in { SearchFrom(r, t, 0) : t \in {s} } : TRUE

-----------------------------------------------------------------------------
(* Patterns *)

SepChr == {"-", ".", "_"}

\* VERSION_SOURCE_PATTERN:
\*   ^v((?P<epoch>\d+)!)?(?P<base>\d+(\.\d+)*)
\*   ([-._]?((?P<stage>[a-zA-Z]+)[-._]?(?P<revision>\d+)?))?
\*   (\+(?P<tagged_metadata>.+))?$
VERSION_SOURCE_PATTERN ==
    [groups |-> {"epoch", "base", "stage", "revision", "tagged_metadata"},
     re |-> Cat(<<
        Bol, Lit("v"),
        Opt(Cat(<<Group("epoch", Plus(Chr(Digit))), Lit("!")>>)),
        Group("base", Cat(<<Plus(Chr(Digit)), Star(Cat(<<Lit("."), Plus(Chr(Digit))>>))>>)),
        Opt(Cat(<<Opt(Chr(SepChr)),
                  Group("stage", Plus(Chr(Alpha))),
                  Opt(Chr(SepChr)),
                  Opt(Group("revision", Plus(Chr(Digit))))>>)),
        Opt(Cat(<<Lit("+"), Group("tagged_metadata", Plus(AnyChr))>>)),
        Eol>>)]

\* A caller's pattern without the group 'base': ^v(?P<release>\d+(\.\d+)*)$
PatternNoBase ==
    [groups |-> {"release"},
     re |-> Cat(<<Bol, Lit("v"),
                  Group("release", Cat(<<Plus(Chr(Digit)), Star(Cat(<<Lit("."), Plus(Chr(Digit))>>))>>)),
                  Eol>>)]

\* A caller's pattern whose group 'base' need not take part in a match:
\*   ^v(?P<base>\d+\.\d+)?
PatternOptBase ==
    [groups |-> {"base"},
     re |-> Cat(<<Bol, Lit("v"),
                  Opt(Group("base", Cat(<<Plus(Chr(Digit)), Lit("."), Plus(Chr(Digit))>>)))>>)]

\* A caller's pattern whose 'revision' and 'epoch' groups admit non-digits:
\*   ^(?P<epoch>[a-uw-z])?v(?P<base>\d+)(?P<stage>[a-z]+)?(?P<revision>[.\d]+)?$
PatternLoose ==
    [groups |-> {"epoch", "base", "stage", "revision"},
     re |-> Cat(<<Bol, Opt(Group("epoch", Chr(Lower \ {"v"}))), Lit("v"),
                  Group("base", Plus(Chr(Digit))),
                  Opt(Group("stage", Plus(Chr(Lower)))),
                  Opt(Group("revision", Plus(Chr(Digit \cup {"."})))),
                  Eol>>)]

PatternIds == {"VERSION_SOURCE_PATTERN", "PatternNoBase", "PatternOptBase", "PatternLoose"}

PatternOf(id) ==
    CASE id = "VERSION_SOURCE_PATTERN" -> VERSION_SOURCE_PATTERN
      [] id = "PatternNoBase" -> PatternNoBase
      [] id = "PatternOptBase" -> PatternOptBase
      [] id = "PatternLoose" -> PatternLoose

-----------------------------------------------------------------------------
(* _match_version_pattern *)

(* The exceptions that are ValueError, by message. *)
ValueErrors == {"NoBaseGroup", "NoMatchLatest", "NoMatchAny", "BadRevision", "BadEpoch", "ValueError"}

(* match.groupdict().get(name) *)
GroupDictGet(pm, pattern, name) ==
    IF name \in pattern.groups THEN pm.c[name] ELSE None

(* The for loop of lines 141-153 from candidate k on.  The loop state is   *)
(* the last pattern_match, base, the loop variable source (as an index     *)
(* into sources, 0 before the first iteration) and newer_unmatched_tags.   *)
(* MatchLoop with a slip: every skipped candidate is recorded as unmatched, *)
(* also one that the pattern matched without capturing 'base'.             *)
RECURSIVE MatchLoopRecordsAll(_,_,_,_,_)
MatchLoopRecordsAll(pattern, scanned, k, pm, newer) ==
    IF k > Len(scanned)
    THEN [raised |-> FALSE, pm |-> pm, base |-> None, at |-> k - 1, newer |-> newer]
    ELSE LET m == ReSearch(pattern.re, scanned[k])
         IN  IF IsNone(m)
             THEN MatchLoopRecordsAll(pattern, scanned, k + 1, None, Append(newer, scanned[k]))
             ELSE IF "base" \notin pattern.groups
             THEN [raised |-> TRUE, pm |-> m, base |-> None, at |-> k, newer |-> newer]
             ELSE IF IsSet(Get(m).c["base"])
             THEN [raised |-> FALSE, pm |-> m, base |-> Get(m).c["base"], at |-> k, newer |-> newer]
             ELSE MatchLoopRecordsAll(pattern, scanned, k + 1, m, Append(newer, scanned[k]))

RECURSIVE MatchLoop(_,_,_,_,_)
MatchLoop(pattern, scanned, k, pm, newer) ==
    IF k > Len(scanned)
    THEN [raised |-> FALSE, pm |-> pm, base |-> None, at |-> k - 1, newer |-> newer]
    ELSE LET m == ReSearch(pattern.re, scanned[k])
         IN  IF IsNone(m)
             THEN MatchLoop(pattern, scanned, k + 1, None, Append(newer, scanned[k]))
             ELSE IF "base" \notin pattern.groups
             THEN [raised |-> TRUE, pm |-> m, base |-> None, at |-> k, newer |-> newer]
             ELSE IF IsSet(Get(m).c["base"])
             THEN [raised |-> FALSE, pm |-> m, base |-> Get(m).c["base"], at |-> k, newer |-> newer]
             ELSE MatchLoop(pattern, scanned, k + 1, m, newer)

MatchFields(pattern, sources, loop) ==
    LET pm       == Get(loop.pm)
        stage    == GroupDictGet(pm, pattern, "stage")
        revision == GroupDictGet(pm, pattern, "revision")
        tagged   == GroupDictGet(pm, pattern, "tagged_metadata")
        epoch    == GroupDictGet(pm, pattern, "epoch")
        rev      == IF IsNone(revision) THEN Ok(None)
                    ELSE LET n == PyInt(Get(revision))
                         IN  IF IsOk(n) THEN Ok(Some(n.val)) ELSE n
        ep       == IF IsNone(epoch) THEN Ok(None)
                    ELSE LET n == PyInt(Get(epoch))
                         IN  IF IsOk(n) THEN Ok(Some(n.val)) ELSE n
    IN  IF IsSet(stage) /\ ~IsOk(rev) THEN Raise("BadRevision")
        ELSE IF ~IsOk(ep) THEN Raise("BadEpoch")
        ELSE Ok([matched_tag     |-> sources[loop.at],
                 base            |-> Get(loop.base),
                 stage_revision  |-> IF IsSet(stage) THEN Some(<<Get(stage), rev.val>>) ELSE None,
                 newer_tags      |-> loop.newer,
                 tagged_metadata |-> tagged,
                 epoch           |-> ep.val])

match_version_pattern(pattern, sources, latest_source) ==
    LET scanned == IF latest_source THEN Slice(sources, 0, 1) ELSE sources
        loop    == MatchLoop(pattern, scanned, 1, None, << >>)
    IN  IF loop.raised THEN Raise("NoBaseGroup")
        ELSE IF IsNone(loop.pm) \/ IsNone(loop.base)
        THEN IF latest_source
             THEN IF sources = << >> THEN Raise("IndexError") ELSE Raise("NoMatchLatest")
             ELSE Raise("NoMatchAny")
        ELSE MatchFields(pattern, sources, loop)

-----------------------------------------------------------------------------
(* The pattern matcher applied to tag lists *)

MaxSources == 3

Tags == { <<"v", "1", ".", "0">>,
          <<"v", "2", ".", "0", "r", "c", "1">>,
          <<"v", "x">>,
          <<"x", "v", "1">>,
          <<"v", "1", "!", "2", ".", "0", "+", "m">>,
          <<"v", "3", "b", "1", ".", ".">> }

TagLists == UNION { [1..n -> Tags] : n \in 0..MaxSources }

Init ==
    /\ op = "init"
    /\ args = << >>
    /\ ret = Raise("none")
    /\ self = None

(* The caller is done with the outcome of the last call. *)
Return ==
    /\ op # "init"
    /\ op' = "init"
    /\ args' = << >>
    /\ ret' = Raise("none")
    /\ UNCHANGED self

CallMatch ==
    /\ op = "init"
    /\ \E id \in PatternIds, sources \in TagLists, latest \in BOOLEAN :
        /\ op' = "_match_version_pattern"
        /\ args' = [pattern |-> id, sources |-> sources, latest_source |-> latest]
        /\ ret' = match_version_pattern(PatternOf(id), sources, latest)
        /\ UNCHANGED self

NextMatch == CallMatch \/ Return

SpecMatch == Init /\ [][NextMatch]_vars

-----------------------------------------------------------------------------
(* bump_version *)

(* seq[i] for a Python index i into a sequence of length n, as a 1-based   *)
(* position; 0 when i is out of range (IndexError).                        *)
PyIndex(n, i) ==
    IF i >= 0 THEN (IF i < n THEN i + 1 ELSE 0)
    ELSE (IF n + i >= 0 THEN n + i + 1 ELSE 0)

(* [int(x) for x in parts]: the ints, or the first exception *)
RECURSIVE IntEach(_)
IntEach(parts) ==
    IF parts = << >> THEN Ok(<< >>)
    ELSE LET n == PyInt(Head(parts))
         IN  IF ~IsOk(n) THEN n
             ELSE LET rest == IntEach(Tail(parts))
                  IN  IF ~IsOk(rest) THEN rest ELSE Ok(<<n.val>> \o rest.val)

(* [str(x) for x in bases] *)
StrEach(bases) == [k \in 1..Len(bases) |-> IntStr(bases[k])]

(* limit = 0 if index < 0 else len(bases), with the slip of taking 0 always *)
ResetLimitAlwaysZero(index, n) == 0

(* limit = 0 if index < 0 else len(bases), with the slip of taking len(bases) always *)
ResetLimitAlwaysLen(index, n) == n

(* limit = 0 if index < 0 else len(bases) *)
ResetLimit(index, n) == IF index < 0 THEN 0 ELSE n

(* while i < limit: bases[i] = 0; i += 1 *)
RECURSIVE ResetLoop(_,_,_)
ResetLoop(bases, i, limit) ==
    IF i < limit
    THEN IF PyIndex(Len(bases), i) = 0 THEN Raise("IndexError")
         ELSE ResetLoop([bases EXCEPT ![PyIndex(Len(bases), i)] = 0], i + 1, limit)
    ELSE Ok(bases)

bump_version(base, index) ==
    LET parsed == IntEach(Split(base, "."))
    IN  IF ~IsOk(parsed) THEN parsed
        ELSE LET bases == parsed.val
                 at    == PyIndex(Len(bases), index)
             IN  IF at = 0 THEN Raise("IndexError")
                 ELSE LET reset == ResetLoop([bases EXCEPT ![at] = bases[at] + 1],
                                             index + 1, ResetLimit(index, Len(bases)))
                      IN  IF ~IsOk(reset) THEN reset
                          ELSE Ok(Join(StrEach(reset.val), <<".">>))

-----------------------------------------------------------------------------
(* bump_version applied to bases *)

MaxSegments == 3

SegmentValues == {0, 1, 2, 3, 9}

(* Bases whose segments are written as plain non-negative integers *)
NumericBases ==
    { Join(StrEach(segs), <<".">>) :
        segs \in UNION { [1..n -> SegmentValues] : n \in 1..MaxSegments } }

(* Other arguments a caller may pass as base *)
OtherBases == { << >>,
                <<"1", ".", "a">>,
                <<"1", ".", ".", "2">>,
                <<"0", "1", ".", "2">>,
                <<"9", "9", ".", "9">>,
                <<"-", "1", ".", "9">>,
                <<"1", "_", "0", ".", "9">>,
                <<" ", "1", ".", "2", "\n">>,
                <<"", "1", ".", "2">>,
                <<"1", ".", "2", "">> }

BumpIndexes == (0 - (MaxSegments + 1)) .. MaxSegments

CallBumpVersion ==
    /\ op = "init"
    /\ \E base \in NumericBases \cup OtherBases, index \in BumpIndexes :
        /\ op' = "bump_version"
        /\ args' = [base |-> base, index |-> index]
        /\ ret' = bump_version(base, index)
        /\ UNCHANGED self

NextBump == CallBumpVersion \/ Return

SpecBump == Init /\ [][NextBump]_vars

-----------------------------------------------------------------------------
(* check_version *)

(* The characters of a literal, one after the other *)
Word(s) == Cat([k \in 1..Len(s) |-> Lit(s[k])])

Digits1 == Plus(Chr(Digit))

\* _VALID_PEP440:
\*   ^(\d+!)?\d+(\.\d+)*((a|b|rc)\d+)?(\.post\d+)?(\.dev\d+)?
\*   (\+([a-zA-Z0-9]|[a-zA-Z0-9]{2}|[a-zA-Z0-9][a-zA-Z0-9.]+[a-zA-Z0-9]))?$
VALID_PEP440 ==
    Cat(<<Bol,
          Opt(Cat(<<Digits1, Lit("!")>>)),
          Digits1, Star(Cat(<<Lit("."), Digits1>>)),
          Opt(Cat(<<Alt(<<Lit("a"), Lit("b"), Word(<<"r", "c">>)>>), Digits1>>)),
          Opt(Cat(<<Word(<<".", "p", "o", "s", "t">>), Digits1>>)),
          Opt(Cat(<<Word(<<".", "d", "e", "v">>), Digits1>>)),
          Opt(Cat(<<Lit("+"),
                    Alt(<<Chr(AlNum),
                          Cat(<<Chr(AlNum), Chr(AlNum)>>),
                          Cat(<<Chr(AlNum), Plus(Chr(AlNum \cup {"."})), Chr(AlNum)>>)>>)>>)),
          Eol>>)

\* _VALID_SEMVER:
\*   ^\d+\.\d+\.\d+(\-[a-zA-Z0-9\-]+(\.[a-zA-Z0-9\-]+)*)?(\+[a-zA-Z0-9\-]+(\.[a-zA-Z0-9\-]+)*)?$
VALID_SEMVER ==
    Cat(<<Bol,
          Digits1, Lit("."), Digits1, Lit("."), Digits1,
          Opt(Cat(<<Lit("-"), Plus(Chr(AlNum \cup {"-"})),
                    Star(Cat(<<Lit("."), Plus(Chr(AlNum \cup {"-"}))>>))>>)),
          Opt(Cat(<<Lit("+"), Plus(Chr(AlNum \cup {"-"})),
                    Star(Cat(<<Lit("."), Plus(Chr(AlNum \cup {"-"}))>>))>>)),
          Eol>>)

\* _VALID_PVP:  ^\d+(\.\d+)*(-[a-zA-Z0-9]+)*$
VALID_PVP ==
    Cat(<<Bol,
          Digits1, Star(Cat(<<Lit("."), Digits1>>)),
          Star(Cat(<<Lit("-"), Plus(Chr(AlNum))>>)),
          Eol>>)

\* ^0[0-9]+$
LeadingZeroNumber == Cat(<<Bol, Lit("0"), Digits1, Eol>>)

Styles == {"Pep440", "SemVer", "Pvp"}

StylePattern(style) ==
    CASE style = "Pep440" -> VALID_PEP440
      [] style = "SemVer" -> VALID_SEMVER
      [] style = "Pvp" -> VALID_PVP

(* version.split("+", 1)[0] *)
RECURSIVE BeforeFirst(_,_)
BeforeFirst(s, ch) ==
    IF s = << >> \/ Head(s) = ch THEN << >>
    ELSE <<Head(s)>> \o BeforeFirst(Tail(s), ch)

(* check_version with a slip: only the grammar is tested, the leading-zero  *)
(* rule of lines 1256-1259 is left out                                     *)
check_version_grammar_only(version, style) ==
    IF IsNone(ReSearch(StylePattern(style), version)) THEN Raise("ValueError")
    ELSE Ok(None)

(* check_version with a slip: the leading-zero rule is applied to the      *)
(* whole string, the part after "+" included                               *)
check_version_zero_rule_everywhere(version, style) ==
    IF IsNone(ReSearch(StylePattern(style), version)) THEN Raise("ValueError")
    ELSE IF style = "SemVer"
            /\ LET parts == SplitFrom(version, {".", "-", "+"}, << >>)
               IN  \E k \in 1..Len(parts) : IsSet(ReSearch(LeadingZeroNumber, parts[k]))
    THEN Raise("ValueError")
    ELSE Ok(None)

check_version(version, style) ==
    IF IsNone(ReSearch(StylePattern(style), version)) THEN Raise("ValueError")
    ELSE IF style = "SemVer"
            /\ LET parts == SplitFrom(BeforeFirst(version, "+"), {".", "-"}, << >>)
               IN  \E k \in 1..Len(parts) : IsSet(ReSearch(LeadingZeroNumber, parts[k]))
    THEN Raise("ValueError")
    ELSE Ok(None)

(* The name of the style in the message, lines 1248-1252 *)
StyleName(style) ==
    CASE style = "Pep440" -> <<"P", "E", "P", " ", "4", "4", "0">>
      [] style = "SemVer" -> <<"S", "e", "m", "a", "n", "t", "i", "c", " ", "V", "e", "r", "s", "i", "o", "n", "i", "n", "g">>
      [] style = "Pvp" -> <<"P", "V", "P">>

(* "Version '{}' does not conform to the {} style".format(version, name) *)
failure_message(version, style) ==
    <<"V", "e", "r", "s", "i", "o", "n", " ", "'">> \o version \o <<"'", " ", "d", "o", "e", "s", " ", "n", "o", "t", " ", "c", "o", "n", "f", "o", "r", "m", " ", "t", "o", " ", "t", "h", "e", " ">> \o StyleName(style) \o <<" ", "s", "t", "y", "l", "e">>

(* check_version as its caller sees it: None, or ValueError with the message *)
check_version_outcome(version, style) ==
    CHOOSE r \in { IF IsOk(c) THEN c ELSE [c EXCEPT !.val = failure_message(version, style)] :
                   c \in {check_version(version, style)} } : TRUE

(* Strings handed to check_version: a release, a prerelease part and a     *)
(* build part, sound or not.                                               *)
CheckReleases == { <<"1", ".", "2", ".", "3">>,
                   <<"0", ".", "0", ".", "0">>,
                   <<"1", ".", "0", "2", ".", "3">>,
                   <<"1", ".", "2">>,
                   <<"1", ".", "2", ".", "3", ".", "4">> }

CheckPrereleases == { << >>,
                      <<"-", "1">>,
                      <<"-", "0">>,
                      <<"-", "0", "1">>,
                      <<"-", "0", "0">>,
                      <<"-", "0", "a">>,
                      <<"-", "r", "c", ".", "1">>,
                      <<"-", "r", "c", "-", "0", "1">>,
                      <<"-", "a", ".", "0", "1", "0", ".", "b">>,
                      <<"-">>,
                      <<"-", "r", "c", ".", ".", "1">> }

CheckBuilds == { << >>,
                 <<"+", "0", "1">>,
                 <<"+", "m", "1", ".", "0", "0", "7">>,
                 <<"+">>,
                 <<"+", "a", "_", "b">> }

CheckTexts == { r \o p \o b : r \in CheckReleases, p \in CheckPrereleases, b \in CheckBuilds }

CallCheckVersion ==
    /\ op = "init"
    /\ \E version \in CheckTexts, style \in Styles :
        /\ op' = "check_version"
        /\ args' = [version |-> version, style |-> style]
        /\ ret' = check_version_outcome(version, style)
        /\ UNCHANGED self

NextCheck == CallCheckVersion \/ Return

SpecCheck == Init /\ [][NextCheck]_vars

-----------------------------------------------------------------------------
(* serialize_pep440, serialize_semver, serialize_pvp *)

Concat(parts) == Join(parts, << >>)

(* The stage lookup with a slip: a label that is not in the table is kept  *)
(* as it was given, alternative_stages.get(stage.lower(), stage)           *)
NormalStageElseAsGiven(stage) ==
    LET low == StrLower(stage)
    IN  CASE low = <<"a", "l", "p", "h", "a">> -> <<"a">>
          [] low = <<"b", "e", "t", "a">> -> <<"b">>
          [] low = <<"c">> -> <<"r", "c">>
          [] low = <<"p", "r", "e">> -> <<"r", "c">>
          [] low = <<"p", "r", "e", "v", "i", "e", "w">> -> <<"r", "c">>
          [] OTHER -> stage

(* alternative_stages.get(stage.lower(), stage.lower()) *)
NormalStage(stage) ==
    LET low == StrLower(stage)
    IN  CASE low = <<"a", "l", "p", "h", "a">> -> <<"a">>
          [] low = <<"b", "e", "t", "a">> -> <<"b">>
          [] low = <<"c">> -> <<"r", "c">>
          [] low = <<"p", "r", "e">> -> <<"r", "c">>
          [] low = <<"p", "r", "e", "v", "i", "e", "w">> -> <<"r", "c">>
          [] OTHER -> low

(* check_version(out, style); return out *)
CheckedStr(out, style) ==
    CHOOSE r \in { IF IsOk(c) THEN Ok(out) ELSE c : c \in {check_version(out, style)} } : TRUE

(* The string a serializer rendered, returned only if check_version passes *)
Checked(serialized, style) ==
    CHOOSE r \in { CheckedStr(out, style) : out \in {serialized} } : TRUE

(* serialize_pep440 with a slip: the rendered string is returned unchecked *)
serialize_pep440_unchecked(base, stage, revision, post, dev, epoch, metadata) ==
    Ok(Concat(<<
        IF IsSet(epoch) THEN IntStr(Get(epoch)) \o <<"!">> ELSE << >>,
        base,
        IF IsSet(stage)
        THEN NormalStage(Get(stage)) \o (IF IsNone(revision) THEN IntStr(0) ELSE IntStr(Get(revision)))
        ELSE << >>,
        IF IsSet(post) THEN <<".", "p", "o", "s", "t">> \o IntStr(Get(post)) ELSE << >>,
        IF IsSet(dev) THEN <<".", "d", "e", "v">> \o IntStr(Get(dev)) ELSE << >>,
        IF Len(metadata) > 0 THEN <<"+">> \o Join(metadata, <<".">>) ELSE << >>
    >>))

(* metadata is the sequence of segments; None and [] render alike *)
serialize_pep440(base, stage, revision, post, dev, epoch, metadata) ==
    Checked(Concat(<<
        IF IsSet(epoch) THEN IntStr(Get(epoch)) \o <<"!">> ELSE << >>,
        base,
        IF IsSet(stage)
        THEN NormalStage(Get(stage)) \o (IF IsNone(revision) THEN IntStr(0) ELSE IntStr(Get(revision)))
        ELSE << >>,
        IF IsSet(post) THEN <<".", "p", "o", "s", "t">> \o IntStr(Get(post)) ELSE << >>,
        IF IsSet(dev) THEN <<".", "d", "e", "v">> \o IntStr(Get(dev)) ELSE << >>,
        IF Len(metadata) > 0 THEN <<"+">> \o Join(metadata, <<".">>) ELSE << >>
    >>), "Pep440")

serialize_semver(base, pre, metadata) ==
    Checked(Concat(<<
        base,
        IF Len(pre) > 0 THEN <<"-">> \o Join(pre, <<".">>) ELSE << >>,
        IF Len(metadata) > 0 THEN <<"+">> \o Join(metadata, <<".">>) ELSE << >>
    >>), "SemVer")

serialize_pvp(base, metadata) ==
    Checked(Concat(<<
        base,
        IF Len(metadata) > 0 THEN <<"-">> \o Join(metadata, <<"-">>) ELSE << >>
    >>), "Pvp")

-----------------------------------------------------------------------------
(* Version *)

(* Version.__init__: stage is None or the pair <<stage, revision>> *)
NewVersion(base, stage, distance, commit, dirty, tagged_metadata, epoch, branch, timestamp) ==
    [base            |-> base,
     stage           |-> IF IsSet(stage) THEN Some(Get(stage)[1]) ELSE None,
     revision        |-> IF IsSet(stage) THEN Get(stage)[2] ELSE None,
     distance        |-> distance,
     commit          |-> commit,
     dirty           |-> dirty,
     tagged_metadata |-> tagged_metadata,
     epoch           |-> epoch,
     branch          |-> branch,
     timestamp       |-> timestamp]

(* Version(base): every keyword argument at its default *)
PlainVersion(base) == NewVersion(base, None, 0, None, None, None, None, None, None)

(* Objects.  A method works on two Version objects at most: its receiver,  *)
(* "self", and the object copy.deepcopy returned, "copy".                  *)
Objects(v) == [self |-> v, copy |-> v]

(* copy.deepcopy(self) with a slip: no copy is made, the receiver itself is used *)
deepcopy_alias(ref) == ref

(* copy.deepcopy(self): a reference to a new object, equal to the receiver *)
deepcopy(ref) == "copy"

(* The revision after a bump, with a slip: an absent revision counts as 0 *)
NextRevisionFromZero(revision) ==
    IF IsNone(revision) THEN Some(1) ELSE Some(Get(revision) + 1)

(* The revision after a bump, lines 693-697: an absent revision becomes 2 *)
NextRevision(revision) ==
    IF IsNone(revision) THEN Some(2) ELSE Some(Get(revision) + 1)

(* Version.bump: [self |-> the receiver afterwards, ret |-> the outcome] *)
Version_bump(v, index) ==
    LET bumped == deepcopy("self")
        objs   == Objects(v)
    IN  IF IsNone(objs[bumped].stage)
        THEN LET b == bump_version(objs[bumped].base, index)
             IN  IF ~IsOk(b) THEN [self |-> objs.self, ret |-> b]
                 ELSE LET after == [objs EXCEPT ![bumped].base = b.val]
                      IN  [self |-> after.self, ret |-> Ok(after[bumped])]
        ELSE LET after == [objs EXCEPT ![bumped].revision = NextRevision(objs[bumped].revision)]
             IN  [self |-> after.self, ret |-> Ok(after[bumped])]

-----------------------------------------------------------------------------
(* Version.serialize *)

(* A format string is a sequence of pieces: literal text [lit |-> s] and   *)
(* replacement fields [slot |-> name].                                     *)
TemplateIds == {"v{base}", "{base}+{distance}.{commit}.{dirty}", "{stage}{revision}/{branch_escaped}"}

TemplateOf(id) ==
    CASE id = "v{base}" -> <<[lit |-> <<"v">>], [slot |-> "base"]>>
      [] id = "{base}+{distance}.{commit}.{dirty}" ->
            <<[slot |-> "base"], [lit |-> <<"+">>], [slot |-> "distance"], [lit |-> <<".">>],
              [slot |-> "commit"], [lit |-> <<".">>], [slot |-> "dirty"]>>
      [] id = "{stage}{revision}/{branch_escaped}" ->
            <<[slot |-> "stage"], [slot |-> "revision"], [lit |-> <<"/">>], [slot |-> "branch_escaped"]>>

(* _blank(value, "") for a str *)
BlankStr(o) == IF IsSet(o) THEN Get(o) ELSE << >>

(* str.format of _blank(value, "") for an int *)
BlankInt(o) == IF IsSet(o) THEN IntStr(Get(o)) ELSE << >>

(* _escape_branch *)
escape_branch(value) ==
    LET Kept(ch) == ch \in AlNum
    IN  SelectSeq(value, Kept)

(* The keyword arguments of format.format(...), lines 523-533.  A          *)
(* timestamp is held as its UTC YYYYmmddHHMMSS text.                       *)
FormatFields(v, base, revision) ==
    [base            |-> base,
     stage           |-> BlankStr(v.stage),
     revision        |-> BlankInt(revision),
     distance        |-> IntStr(v.distance),
     commit          |-> BlankStr(v.commit),
     tagged_metadata |-> BlankStr(v.tagged_metadata),
     dirty           |-> IF v.dirty = Some(TRUE) THEN <<"d", "i", "r", "t", "y">>
                         ELSE <<"c", "l", "e", "a", "n">>,
     epoch           |-> BlankInt(v.epoch),
     branch          |-> BlankStr(v.branch),
     branch_escaped  |-> escape_branch(BlankStr(v.branch)),
     timestamp       |-> BlankStr(v.timestamp)]

(* str.format *)
RECURSIVE FormatWith(_,_)
FormatWith(template, fields) ==
    IF template = << >> THEN << >>
    ELSE (IF "lit" \in DOMAIN Head(template) THEN Head(template).lit
          ELSE fields[Head(template).slot])
         \o FormatWith(Tail(template), fields)

(* Callbacks a caller may pass as format: each returns a str and may       *)
(* change the Version it is given.                                         *)
CallbackIds == {"lambda v: v.base", "resets_its_argument"}

RunCallback(id, arg) ==
    CASE id = "lambda v: v.base" -> [out |-> arg.base, arg |-> arg]
      [] id = "resets_its_argument" ->
            [out |-> arg.base \o <<"+">> \o IntStr(arg.distance),
             arg |-> [arg EXCEPT !.base = <<"0">>, !.distance = 0, !.commit = None,
                                 !.dirty = None, !.stage = None, !.revision = None]]

(* meta_parts with a slip: metadata=False is not looked at *)
MetaPartsWithoutSwitch(v, metadata, dirty, tagged_metadata) ==
    (IF tagged_metadata /\ IsSet(v.tagged_metadata) /\ Get(v.tagged_metadata) # << >>
     THEN <<Get(v.tagged_metadata)>> ELSE << >>)
    \o (IF (metadata = Some(TRUE) \/ v.distance > 0) /\ IsSet(v.commit)
        THEN <<Get(v.commit)>> ELSE << >>)
    \o (IF dirty /\ v.dirty = Some(TRUE) THEN <<<<"d", "i", "r", "t", "y">>>> ELSE << >>)

(* meta_parts, lines 543-550 *)
MetaParts(v, metadata, dirty, tagged_metadata) ==
    IF metadata = Some(FALSE) THEN << >>
    ELSE (IF tagged_metadata /\ IsSet(v.tagged_metadata) /\ Get(v.tagged_metadata) # << >>
          THEN <<Get(v.tagged_metadata)>> ELSE << >>)
         \o (IF (metadata = Some(TRUE) \/ v.distance > 0) /\ IsSet(v.commit)
             THEN <<Get(v.commit)>> ELSE << >>)
         \o (IF dirty /\ v.dirty = Some(TRUE) THEN <<<<"d", "i", "r", "t", "y">>>> ELSE << >>)

(* pre_parts with a slip: the distance is labelled "post" also with bump *)
PrePartsAlwaysPost(v, revision, bump) ==
    (IF IsSet(v.stage)
     THEN <<Get(v.stage)>> \o (IF IsSet(revision) THEN <<IntStr(Get(revision))>> ELSE << >>)
     ELSE << >>)
    \o (IF v.distance > 0
        THEN <<<<"p", "o", "s", "t">>, IntStr(v.distance)>>
        ELSE << >>)

(* pre_parts, lines 552-559 *)
PreParts(v, revision, bump) ==
    (IF IsSet(v.stage)
     THEN <<Get(v.stage)>> \o (IF IsSet(revision) THEN <<IntStr(Get(revision))>> ELSE << >>)
     ELSE << >>)
    \o (IF v.distance > 0
        THEN <<IF bump THEN <<"p", "r", "e">> ELSE <<"p", "o", "s", "t">>, IntStr(v.distance)>>
        ELSE << >>)

(* The PEP 440 segments with a slip: without bump the distance goes to dev *)
(* as it does with bump, and no post segment is made of it.                *)
Pep440SegmentsDevOnly(v, revision, bump) ==
    LET isPost == v.stage = Some(<<"p", "o", "s", "t">>)
        isDev  == v.stage = Some(<<"d", "e", "v">>)
        stage  == IF isPost \/ isDev THEN None ELSE v.stage
        post0  == IF isPost THEN revision ELSE None
        dev0   == IF isDev THEN revision ELSE None
    IN  IF v.distance > 0
        THEN [stage |-> stage, post |-> post0,
              dev |-> IF IsNone(dev0) THEN Some(v.distance) ELSE Some(Get(dev0) + v.distance)]
        ELSE [stage |-> stage, post |-> post0, dev |-> dev0]

(* stage, post and dev of the PEP 440 rendering, lines 562-584 *)
Pep440Segments(v, revision, bump) ==
    LET isPost == v.stage = Some(<<"p", "o", "s", "t">>)
        isDev  == v.stage = Some(<<"d", "e", "v">>)
        stage  == IF isPost \/ isDev THEN None ELSE v.stage
        post0  == IF isPost THEN revision ELSE None
        dev0   == IF isDev THEN revision ELSE None
    IN  IF v.distance > 0
        THEN IF bump
             THEN [stage |-> stage, post |-> post0,
                   dev |-> IF IsNone(dev0) THEN Some(v.distance) ELSE Some(Get(dev0) + v.distance)]
             ELSE IF IsNone(post0) /\ IsNone(dev0)
             THEN [stage |-> stage, post |-> Some(v.distance), dev |-> Some(0)]
             ELSE IF IsNone(dev0)
             THEN [stage |-> stage, post |-> post0, dev |-> Some(v.distance)]
             ELSE [stage |-> stage, post |-> post0, dev |-> Some(Get(dev0) + v.distance)]
        ELSE [stage |-> stage, post |-> post0, dev |-> dev0]

(* The built-in composition, lines 539-601 *)
BuiltIn(v, base, revision, metadata, dirty, style, bump, tagged_metadata) ==
    LET chosen == IF IsNone(style) THEN "Pep440" ELSE Get(style)
        meta   == MetaParts(v, metadata, dirty, tagged_metadata)
        pre    == PreParts(v, revision, bump)
        seg    == Pep440Segments(v, revision, bump)
        out    == CASE chosen = "Pep440" ->
                         serialize_pep440(base, seg.stage, revision, seg.post, seg.dev, v.epoch, meta)
                    [] chosen = "SemVer" -> serialize_semver(base, pre, meta)
                    [] chosen = "Pvp" -> serialize_pvp(base, pre \o meta)
    IN  IF ~IsOk(out) THEN out ELSE Checked(out.val, chosen)

(* The custom format with a slip: the result is returned without the check *)
(* against the style.                                                      *)
CustomUnchecked(v, base, revision, format, style) ==
    LET new_version == deepcopy("self")
        objs   == Objects(v)
        set    == [objs EXCEPT ![new_version].base = base, ![new_version].revision = revision]
        cb     == RunCallback(format.id, set[new_version])
        after  == IF format.kind = "callback" THEN [set EXCEPT ![new_version] = cb.arg] ELSE objs
        out    == IF format.kind = "callback" THEN cb.out
                  ELSE FormatWith(TemplateOf(format.id), FormatFields(v, base, revision))
    IN  [self |-> after.self, ret |-> Ok(out)]

(* The custom format, lines 515-537: [self |-> the receiver afterwards,    *)
(* ret |-> the outcome]                                                    *)
Custom(v, base, revision, format, style) ==
    LET new_version == deepcopy("self")
        objs   == Objects(v)
        set    == [objs EXCEPT ![new_version].base = base, ![new_version].revision = revision]
        cb     == RunCallback(format.id, set[new_version])
        after  == IF format.kind = "callback" THEN [set EXCEPT ![new_version] = cb.arg] ELSE objs
        out    == IF format.kind = "callback" THEN cb.out
                  ELSE FormatWith(TemplateOf(format.id), FormatFields(v, base, revision))
    IN  [self |-> after.self,
         ret  |-> IF IsSet(style) THEN Checked(out, Get(style)) ELSE Ok(out)]

(* Version.serialize: [self |-> the receiver afterwards, ret |-> the outcome] *)
(* Lines 515-601 for the receiver cur with the base and revision to render *)
Render(cur, base, revision, metadata, dirty, format, style, bump, tagged_metadata) ==
    IF IsSet(format) THEN Custom(cur, base, revision, Get(format), style)
    ELSE [self |-> cur,
          ret  |-> BuiltIn(cur, base, revision, metadata, dirty, style, bump, tagged_metadata)]

(* Version.serialize with a slip: bump is applied whatever the distance *)
Version_serialize_bump_unguarded(v, metadata, dirty, format, style, bump, tagged_metadata) ==
    IF bump
    THEN CHOOSE r \in
            { IF ~IsOk(bumped.ret) THEN bumped
              ELSE Render(bumped.self, bumped.ret.val.base, bumped.ret.val.revision,
                          metadata, dirty, format, style, bump, tagged_metadata) :
              bumped \in {Version_bump(v, 0 - 1)} } : TRUE
    ELSE Render(v, v.base, v.revision, metadata, dirty, format, style, bump, tagged_metadata)

(* Lines 508-513 and on: bumped = self.bump() is evaluated when bump is    *)
(* set and distance > 0; base and revision are then the bumped ones.       *)
Version_serialize(v, metadata, dirty, format, style, bump, tagged_metadata) ==
    IF bump /\ v.distance > 0
    THEN CHOOSE r \in
            { IF ~IsOk(bumped.ret) THEN bumped
              ELSE Render(bumped.self, bumped.ret.val.base, bumped.ret.val.revision,
                          metadata, dirty, format, style, bump, tagged_metadata) :
              bumped \in {Version_bump(v, 0 - 1)} } : TRUE
    ELSE Render(v, v.base, v.revision, metadata, dirty, format, style, bump, tagged_metadata)

-----------------------------------------------------------------------------
(* Version.parse *)

\* d?(\d+)
DistancePart == Cat(<<Opt(Lit("d")), Group("num", Digits1)>>)

\* g?([\da-z]+)
CommitPart == Cat(<<Opt(Lit("g")), Group("num", Plus(Chr(Digit \cup Lower)))>>)

(* The loop with a slip: a slot already filled is filled again by a later  *)
(* part that qualifies.                                                    *)
RECURSIVE DecomposeRefilling(_,_,_,_,_,_)
DecomposeRefilling(parts, i, dirty, distance, commit, rest) ==
    IF i > Len(parts)
    THEN [dirty |-> dirty, distance |-> distance, commit |-> commit, rest |-> rest]
    ELSE LET value == parts[i]
         IN  IF value = <<"d", "i", "r", "t", "y">>
             THEN DecomposeRefilling(parts, i + 1, Some(TRUE), distance, commit, rest)
             ELSE IF value = <<"c", "l", "e", "a", "n">>
             THEN DecomposeRefilling(parts, i + 1, Some(FALSE), distance, commit, rest)
             ELSE IF IsSet(ReMatch(DistancePart, value))
             THEN DecomposeRefilling(parts, i + 1, dirty,
                            Some(PyInt(Get(Get(ReMatch(DistancePart, value)).c["num"])).val),
                            commit, rest)
             ELSE IF IsSet(ReMatch(CommitPart, value))
             THEN DecomposeRefilling(parts, i + 1, dirty, distance,
                            Get(ReMatch(CommitPart, value)).c["num"], rest)
             ELSE DecomposeRefilling(parts, i + 1, dirty, distance, commit, Append(rest, value))

(* The loop of lines 633-654 from part i on, with the parts not claimed so *)
(* far in rest (what lines 656-657 leave of parts).                        *)
RECURSIVE Decompose(_,_,_,_,_,_)
Decompose(parts, i, dirty, distance, commit, rest) ==
    IF i > Len(parts)
    THEN [dirty |-> dirty, distance |-> distance, commit |-> commit, rest |-> rest]
    ELSE LET value == parts[i]
         IN  IF IsNone(dirty) /\ value = <<"d", "i", "r", "t", "y">>
             THEN Decompose(parts, i + 1, Some(TRUE), distance, commit, rest)
             ELSE IF IsNone(dirty) /\ value = <<"c", "l", "e", "a", "n">>
             THEN Decompose(parts, i + 1, Some(FALSE), distance, commit, rest)
             ELSE IF IsNone(distance) /\ IsSet(ReMatch(DistancePart, value))
             THEN Decompose(parts, i + 1, dirty,
                            Some(PyInt(Get(Get(ReMatch(DistancePart, value)).c["num"])).val),
                            commit, rest)
             ELSE IF IsNone(commit) /\ IsSet(ReMatch(CommitPart, value))
             THEN Decompose(parts, i + 1, dirty, distance,
                            Get(ReMatch(CommitPart, value)).c["num"], rest)
             ELSE Decompose(parts, i + 1, dirty, distance, commit, Append(rest, value))

(* The candidate handed to the matcher, with a slip: the input as given *)
PrefixedAsGiven(version) == version

(* The prefixing with a slip: "v" is put in front of every input *)
PrefixedAlways(version) == <<"v">> \o version

(* version if version.startswith("v") else "v{}".format(version) *)
Prefixed(version) ==
    IF version # << >> /\ Head(version) = "v" THEN version ELSE <<"v">> \o version

(* The except clause with a slip: the matcher's ValueError is passed on *)
ParseFallbackReraise(version, raised) == raised

(* except ValueError: return cls(version) *)
ParseFallback(version, raised) == Ok(PlainVersion(version))

(* Lines 618-674, with the matcher's outcome *)
Parsed(version, matched) ==
    IF matched.kind \in ValueErrors THEN ParseFallback(version, matched)
        ELSE IF ~IsOk(matched) THEN matched
        ELSE LET m      == matched.val
                 tagged == m.tagged_metadata
                 found  == IF IsSet(tagged) /\ Get(tagged) # << >>
                           THEN Decompose(Split(Get(tagged), "."), 1, None, None, None, << >>)
                           ELSE [dirty |-> None, distance |-> None, commit |-> None, rest |-> << >>]
                 joined == IF IsSet(tagged) /\ Get(tagged) # << >>
                           THEN Some(Join(found.rest, <<".">>)) ELSE tagged
             IN  Ok(NewVersion(m.base, m.stage_revision,
                               IF IsNone(found.distance) THEN 0 ELSE Get(found.distance),
                               found.commit, found.dirty,
                               IF IsSet(joined) /\ Strip(Get(joined)) = << >> THEN None ELSE joined,
                               m.epoch, None, None))

(* Version.parse: the outcome *)
Version_parse(version, pattern) ==
    CHOOSE r \in { Parsed(version, matched) :
                   matched \in {match_version_pattern(pattern, <<Prefixed(version)>>, TRUE)} } : TRUE

-----------------------------------------------------------------------------
(* Versions serialized in the built-in styles *)

MaxRevision == 1

MaxDistance == 1

Bases == { <<"1", ".", "2", ".", "3">>,
           <<"0", ".", "9">>,
           <<"0", "1", ".", "2", ".", "3">> }

Stages == { <<"r", "c">>,
            <<"a", "l", "p", "h", "a">>,
            <<"R", "C">>,
            <<"p", "o", "s", "t">>,
            <<"d", "e", "v">>,
            <<"x">> }

OptionalRevisions == {None} \cup { Some(n) : n \in 0..MaxRevision }

(* The stage argument of Version(...): None or a pair (stage, revision) *)
StageArgs == {None} \cup { Some(<<s, r>>) : s \in Stages, r \in OptionalRevisions }

Commits == {None, Some(<<"g", "1", "f">>)}

Dirties == {None, Some(TRUE), Some(FALSE)}

TaggedMetadatas == {None, Some(<<"m", "1">>)}

Epochs == {None, Some(1)}

(* Versions of every release shape, each with a commit, a dirty flag and   *)
(* tagged metadata for the arguments of serialize to select from.          *)
ReleaseReceivers ==
    { NewVersion(b, s, d, Some(<<"g", "1", "f">>), Some(TRUE), Some(<<"m", "1">>), e, None, None) :
        b \in Bases, s \in StageArgs, d \in 0..MaxDistance, e \in Epochs }

(* Versions of every metadata shape, of a plain release or a release       *)
(* candidate, on a numeric base or on one that is no number.               *)
MetadataReceivers ==
    { NewVersion(b, s, d, c, y, m, None, None, None) :
        b \in { <<"1", ".", "2", ".", "3">>, <<"1", ".", "x">> },
        s \in { None, Some(<< <<"r", "c">>, Some(MaxRevision) >>) },
        d \in 0..MaxDistance, c \in Commits, y \in Dirties, m \in TaggedMetadatas }

(* Version("1.0.0", distance=3) and Version("1.0.0", stage=("rc", 1),      *)
(* distance=2), with no commit.                                            *)
ExampleReceivers ==
    { NewVersion(<<"1", ".", "0", ".", "0">>, None, 3, None, None, None, None, None, None),
      NewVersion(<<"1", ".", "0", ".", "0">>, Some(<< <<"r", "c">>, Some(1) >>), 2,
                 None, None, None, None, None, None) }

Receivers == ReleaseReceivers \cup MetadataReceivers \cup ExampleReceivers

OptionalStyles == {None} \cup { Some(s) : s \in Styles }

OptionalBools == {None, Some(TRUE), Some(FALSE)}

(* Arguments of direct calls of the three serializers, sound or not.  The   *)
(* serializers are module-level functions: they are called with no         *)
(* receiver, self = None.                                                  *)
BaseArgs == { <<"1", ".", "2", ".", "3">>, <<"1", ".", "x">>, << >> }

StageLabels == { None, Some(<<"r", "c">>), Some(<<"R", "C">>), Some(<<"a", "l", "p", "h", "a">>),
                 Some(<<"P", "r", "e", "v", "i", "e", "w">>), Some(<<"x">>) }

EpochArgs == { None, Some(0), Some(0 - 1) }

SegmentLists == { << >>,
                  << <<"g", "1", "f">> >>,
                  << <<"m", "1">>, <<"g", "1", "f">> >>,
                  << <<"a", "+">> >> }

PreLists == { << >>,
              << <<"r", "c">>, <<"1">> >>,
              << <<"r", "c">>, <<"0", "1">> >>,
              << <<"r", "c", "_">> >> }

InitSerialize ==
    /\ op = "init"
    /\ args = << >>
    /\ ret = Raise("none")
    /\ self \in {None} \cup Receivers

CallSerialize ==
    /\ op = "init"
    /\ self # None
    /\ \E metadata \in OptionalBools, dirty \in BOOLEAN, style \in OptionalStyles,
          bump \in BOOLEAN, tagged_metadata \in BOOLEAN :
        LET call == Version_serialize(self, metadata, dirty, None, style, bump, tagged_metadata)
        IN  /\ op' = "Version.serialize"
            /\ args' = [metadata |-> metadata, dirty |-> dirty, format |-> None, style |-> style,
                        bump |-> bump, tagged_metadata |-> tagged_metadata]
            /\ ret' = call.ret
            /\ self' = call.self

CallSerializePep440 ==
    /\ op = "init"
    /\ self = None
    /\ \E base \in BaseArgs, stage \in StageLabels, revision \in OptionalRevisions,
          post \in OptionalRevisions, dev \in OptionalRevisions, epoch \in EpochArgs,
          metadata \in SegmentLists :
        /\ op' = "serialize_pep440"
        /\ args' = [base |-> base, stage |-> stage, revision |-> revision, post |-> post,
                    dev |-> dev, epoch |-> epoch, metadata |-> metadata]
        /\ ret' = serialize_pep440(base, stage, revision, post, dev, epoch, metadata)
        /\ UNCHANGED self

CallSerializeSemver ==
    /\ op = "init"
    /\ self = None
    /\ \E base \in BaseArgs \cup Bases, pre \in PreLists, metadata \in SegmentLists :
        /\ op' = "serialize_semver"
        /\ args' = [base |-> base, pre |-> pre, metadata |-> metadata]
        /\ ret' = serialize_semver(base, pre, metadata)
        /\ UNCHANGED self

CallSerializePvp ==
    /\ op = "init"
    /\ self = None
    /\ \E base \in BaseArgs \cup Bases, metadata \in SegmentLists \cup PreLists :
        /\ op' = "serialize_pvp"
        /\ args' = [base |-> base, metadata |-> metadata]
        /\ ret' = serialize_pvp(base, metadata)
        /\ UNCHANGED self

NextSerialize ==
    \/ CallSerialize
    \/ CallSerializePep440
    \/ CallSerializeSemver
    \/ CallSerializePvp
    \/ Return

SpecSerialize == InitSerialize /\ [][NextSerialize]_vars

-----------------------------------------------------------------------------
(* Versions bumped, serialized with a custom format, and parsed *)

(* branch and timestamp: both unset, or both set *)
Origins == { <<None, None>>,
             <<Some(<<"f", "i", "x", "/", "a", "-", "1">>),
               Some(<<"2", "0", "2", "4", "0", "1", "0", "2", "0", "3", "0", "4", "0", "5">>)>> }

Subjects ==
    { NewVersion(b, s, d, c, c, c, None, o[1], o[2]) :
        b \in { <<"1", ".", "2", ".", "3">>, <<"0", ".", "9">>, <<"1", ".", "x">> },
        s \in {None} \cup { Some(<<l, r>>) : l \in { <<"r", "c">>, <<"d", "e", "v">> },
                                            r \in OptionalRevisions },
        d \in 0..MaxDistance,
        c \in {None},
        o \in Origins }
    \cup
    { NewVersion(b, s, d, Some(<<"g", "1", "f">>), Some(TRUE), Some(<<"m", "1">>), Some(1), o[1], o[2]) :
        b \in { <<"1", ".", "2", ".", "3">>, <<"0", ".", "9">>, <<"1", ".", "x">> },
        s \in {None} \cup { Some(<<l, r>>) : l \in { <<"r", "c">>, <<"d", "e", "v">> },
                                            r \in OptionalRevisions },
        d \in 0..MaxDistance,
        o \in Origins }

Formats == { [kind |-> "template", id |-> id] : id \in TemplateIds }
           \cup { [kind |-> "callback", id |-> id] : id \in CallbackIds }

(* Strings handed to Version.parse *)
Texts == { <<"1", ".", "2", ".", "3">>,
           <<"v", "1", ".", "2", ".", "3">>,
           <<"0", ".", "3", ".", "0", "a", "3", "+", "d", "7", ".", "g", "b", "6", "a", "9", "0", "2", "0", ".", "d", "i", "r", "t", "y">>,
           <<"1", "!", "2", ".", "0", "r", "c", "1">>,
           <<"1", ".", "2", ".", "3", "-", "r", "c", ".", "1">>,
           <<"1", ".", "2", ".", "3", "-", "r", "c", "-", "1", "-", "p", "o", "s", "t", "-", "2">>,
           <<"1", ".", "0", ".", "0", ".", "p", "o", "s", "t", "3", ".", "d", "e", "v", "0">>,
           <<"1", ".", "2", ".", "3", "+", "m", "1", ".", "g", "1", "f">>,
           <<"1", ".", "2", ".", "3", "+", "c", "l", "e", "a", "n", ".", "7">>,
           <<"1", ".", "2", ".", "3", "+">>,
           <<"1", ".", "2", ".", "3", "+", "3", "f", "a", "9", "b", "2", "c">>,
           <<"1", ".", "2", ".", "3", "+", "a", "b", "-", "c", "d">>,
           <<"1", ".", "2", ".", "3", "+", "G", "1", "F">>,
           <<"1", ".", "2", ".", "3", "+", "d", "i", "r", "t", "y", ".", "c", "l", "e", "a", "n", ".", "5", ".", "6", ".", "a", "b", "c">>,
           <<"1", ".", "2", ".", "3", "+", " ">>,
           <<"1", ".", "2", ".", "3", "+", "\t">>,
           <<"1", ".", "2", ".", "3", "+", "7", ".", "\n">>,
           <<"1", ".", "2", ".", "3", "+", "">>,
           <<"1", ".", "2", ".", "3", "+", "", ".", "7">>,
           <<"1", ".", "2", ".", "3", "+", "a", ".", ".", "b">>,
           <<"1", ".", "2", ".", "3", "+", "x", "_", "y", ".", "7", ".", "7">>,
           <<"1", ".", "2", ".", "3", "+", "5", ".", "d", "i", "r", "t", "y", ".", "x", ".", "y">>,
           <<"3", "b", "1", ".", ".">>,
           <<"x", "v", "1">>,
           <<"v", "x">>,
           <<"v">>,
           <<"a", "b", "c">>,
           <<" ", "1", ".", "0">>,
           << >> }

InitVersion ==
    /\ op = "init"
    /\ args = << >>
    /\ ret = Raise("none")
    /\ self \in {None} \cup Subjects

CallBump ==
    /\ op = "init"
    /\ self # None
    /\ \E index \in BumpIndexes :
        LET call == Version_bump(self, index)
        IN  /\ op' = "Version.bump"
            /\ args' = [index |-> index]
            /\ ret' = call.ret
            /\ self' = call.self

(* metadata, dirty and tagged_metadata as passed along with a format: the  *)
(* defaults, everything asked for, metadata switched off.                  *)
IgnoredArgs == { [metadata |-> None, dirty |-> FALSE, tagged_metadata |-> FALSE],
                 [metadata |-> Some(TRUE), dirty |-> TRUE, tagged_metadata |-> TRUE],
                 [metadata |-> Some(FALSE), dirty |-> TRUE, tagged_metadata |-> FALSE] }

CallSerializeFormat ==
    /\ op = "init"
    /\ self # None
    /\ \E format \in Formats, style \in OptionalStyles, bump \in BOOLEAN, other \in IgnoredArgs :
        LET call == Version_serialize(self, other.metadata, other.dirty, Some(format), style, bump,
                                      other.tagged_metadata)
        IN  /\ op' = "Version.serialize"
            /\ args' = [metadata |-> other.metadata, dirty |-> other.dirty,
                        format |-> Some(format), style |-> style,
                        bump |-> bump, tagged_metadata |-> other.tagged_metadata]
            /\ ret' = call.ret
            /\ self' = call.self

CallSerializeStyle ==
    /\ op = "init"
    /\ self # None
    /\ \E style \in OptionalStyles, bump \in BOOLEAN :
        LET call == Version_serialize(self, None, FALSE, None, style, bump, FALSE)
        IN  /\ op' = "Version.serialize"
            /\ args' = [metadata |-> None, dirty |-> FALSE, format |-> None, style |-> style,
                        bump |-> bump, tagged_metadata |-> FALSE]
            /\ ret' = call.ret
            /\ self' = call.self

(* Version.parse is a classmethod: it is called with no receiver *)
CallParse ==
    /\ op = "init"
    /\ self = None
    /\ \E version \in Texts, id \in PatternIds :
        /\ op' = "Version.parse"
        /\ args' = [version |-> version, pattern |-> id]
        /\ ret' = Version_parse(version, PatternOf(id))
        /\ UNCHANGED self

NextVersion ==
    \/ CallBump
    \/ CallSerializeFormat
    \/ CallSerializeStyle
    \/ CallParse
    \/ Return

SpecVersion == InitVersion /\ [][NextVersion]_vars

-----------------------------------------------------------------------------
(* Version comparisons: ==, _matches_partial, < and the > that             *)
(* functools.total_ordering derives from < and ==                          *)

(* x < y for two sequences of ints: at the first position where they       *)
(* differ, or x a proper prefix of y                                       *)
SeqLess(x, y) ==
    \E k \in 1..Len(y) :
        /\ \A j \in 1..(k - 1) : j <= Len(x) /\ x[j] = y[j]
        /\ (k > Len(x) \/ x[k] < y[k])

(* x < y for two str: their characters are compared by code point, here a  *)
(* rank among the characters of the model's alphabet                       *)
StrLess(x, y) ==
    LET ascii == <<" ", "!", "+", "-", ".", "/",
                   "0", "1", "2", "3", "4", "5", "6", "7", "8", "9",
                   "A", "B", "C", "D", "E", "F", "G", "H", "I", "J", "K", "L", "M",
                   "N", "O", "P", "Q", "R", "S", "T", "U", "V", "W", "X", "Y", "Z",
                   "_",
                   "a", "b", "c", "d", "e", "f", "g", "h", "i", "j", "k", "l", "m",
                   "n", "o", "p", "q", "r", "s", "t", "u", "v", "w", "x", "y", "z">>
        ord(ch) == CHOOSE k \in 1..Len(ascii) : ascii[k] = ch
    IN  SeqLess([k \in 1..Len(x) |-> ord(x[k])], [k \in 1..Len(y) |-> ord(y[k])])

(* _equal_if_set(x, y, unset) with the slip of comparing always *)
equal_if_set_always(x, y, unset) == x = y

(* _equal_if_set(x, y, unset): if y in unset: return True; return x == y *)
equal_if_set(x, y, unset) == IF y \in unset THEN TRUE ELSE x = y

(* An operand that is no Version, the int 1: isinstance(other, Version) is *)
(* false of it, as it has none of a Version's attributes.                  *)
NotAVersion == [int |-> 1]

(* Version.__eq__ *)
Version_eq(this, other) ==
    IF "base" \notin DOMAIN other THEN Raise("TypeError")
    ELSE Ok(/\ this.base = other.base
            /\ this.stage = other.stage
            /\ this.revision = other.revision
            /\ this.distance = other.distance
            /\ this.commit = other.commit
            /\ this.dirty = other.dirty
            /\ this.tagged_metadata = other.tagged_metadata
            /\ this.epoch = other.epoch
            /\ this.branch = other.branch
            /\ this.timestamp = other.timestamp)

(* Version._matches_partial.  base and distance are never None: they are   *)
(* compared as set values, so that "" and 0 stay apart from None.          *)
Version_matches_partial(this, other) ==
    IF "base" \notin DOMAIN other THEN Raise("AttributeError")
    ELSE Ok(/\ equal_if_set(Some(this.base), Some(other.base), {None})
            /\ equal_if_set(this.stage, other.stage, {None})
            /\ equal_if_set(this.revision, other.revision, {None})
            /\ equal_if_set(Some(this.distance), Some(other.distance), {None, Some(0)})
            /\ equal_if_set(this.commit, other.commit, {None})
            /\ equal_if_set(this.dirty, other.dirty, {None})
            /\ equal_if_set(this.tagged_metadata, other.tagged_metadata, {None})
            /\ equal_if_set(this.epoch, other.epoch, {None})
            /\ equal_if_set(this.branch, other.branch, {None})
            /\ equal_if_set(this.timestamp, other.timestamp, {None}))

\* packaging.version.Version(text), as the key its ordering compares.  The
\* text is matched, ignoring case, against
\*   ^\s*v?(?:(?:(?P<epoch>[0-9]+)!)?(?P<release>[0-9]+(?:\.[0-9]+)*)
\*   (?P<pre>[-_\.]?(?P<pre_l>(a|b|c|rc|alpha|beta|pre|preview))[-_\.]?(?P<pre_n>[0-9]+)?)?
\*   (?P<post>(?:-(?P<post_n1>[0-9]+))|(?:[-_\.]?(?P<post_l>post|rev|r)[-_\.]?(?P<post_n2>[0-9]+)?))?
\*   (?P<dev>[-_\.]?(?P<dev_l>dev)[-_\.]?(?P<dev_n>[0-9]+)?)?)
\*   (?:\+(?P<local>[a-z0-9]+(?:[-_\.][a-z0-9]+)*))?\s*$
\* and InvalidVersion is raised when it does not match.  The key is the
\* tuple (epoch, release without trailing zeros, pre, post, dev, local) of
\* _cmpkey, written as one sequence of ints that compares as the tuple does:
\* the release ends with -1; pre is (0, n) for a, (1, n) for b, (2, n) for
\* rc, (-1, 0) for a dev release without pre and post, (3, 0) for none;
\* post is (0, n), or (-1, 0) for none; dev is (0, n), or (1, 0) for none;
\* local is -2 for none, else its parts, (1, i) for a number and 0, the
\* ranks of the lower-cased characters, 0 for a text, ended with -1.
pv_Version(text) ==
    LET sep    == Opt(Chr(SepChr))
        digits == Plus(Chr(Digit))
        ci(w)  == Cat([k \in 1..Len(w) |-> Chr({ ch \in Alpha : LowerOf(ch) = w[k] })])
        pattern ==
            Cat(<<Bol, Star(Chr(Whitespace)), Opt(ci(<<"v">>)),
                  Opt(Cat(<<Group("epoch", digits), Lit("!")>>)),
                  Group("release", Cat(<<digits, Star(Cat(<<Lit("."), digits>>))>>)),
                  Opt(Cat(<<sep,
                            Group("pre_l", Alt(<<ci(<<"a">>), ci(<<"b">>), ci(<<"c">>),
                                                 ci(<<"r", "c">>),
                                                 ci(<<"a", "l", "p", "h", "a">>),
                                                 ci(<<"b", "e", "t", "a">>),
                                                 ci(<<"p", "r", "e">>),
                                                 ci(<<"p", "r", "e", "v", "i", "e", "w">>)>>)),
                            sep, Opt(Group("pre_n", digits))>>)),
                  Opt(Alt(<<Cat(<<Lit("-"), Group("post_n1", digits)>>),
                            Cat(<<sep,
                                  Group("post_l", Alt(<<ci(<<"p", "o", "s", "t">>),
                                                        ci(<<"r", "e", "v">>),
                                                        ci(<<"r">>)>>)),
                                  sep, Opt(Group("post_n2", digits))>>)>>)),
                  Opt(Cat(<<sep, Group("dev_l", ci(<<"d", "e", "v">>)),
                            sep, Opt(Group("dev_n", digits))>>)),
                  Opt(Cat(<<Lit("+"),
                            Group("local", Cat(<<Plus(Chr(AlNum)),
                                                 Star(Cat(<<Chr(SepChr), Plus(Chr(AlNum))>>))>>))>>)),
                  Star(Chr(Whitespace)), Eol>>)
        groups == {"epoch", "release", "pre_l", "pre_n", "post_n1", "post_l", "post_n2",
                   "dev_l", "dev_n", "local"}
        int(o) == IF IsSet(o) THEN DigitsVal(Get(o), 0) ELSE 0
        rank(ch) == IF ch \in Digit THEN 1 + DigitVal(ch)
                    ELSE 10 + (CHOOSE k \in 1..26 :
                                 <<"a", "b", "c", "d", "e", "f", "g", "h", "i", "j", "k", "l", "m",
                                   "n", "o", "p", "q", "r", "s", "t", "u", "v", "w", "x", "y",
                                   "z">>[k] = ch)
        part(x) == IF \A k \in 1..Len(x) : x[k] \in Digit
                   THEN <<1, DigitsVal(x, 0)>>
                   ELSE <<0>> \o [k \in 1..Len(x) |-> rank(LowerOf(x[k]))] \o <<0>>
        key(g) ==
            LET release == [k \in 1..Len(Split(Get(g.release), ".")) |->
                               DigitsVal(Split(Get(g.release), ".")[k], 0)]
                kept    == { k \in 1..Len(release) : release[k] # 0 }
                last    == IF kept = {} THEN 0 ELSE CHOOSE k \in kept : \A j \in kept : j <= k
                letter  == StrLower(Get(g.pre_l))
                post_n  == IF IsSet(g.post_n1) THEN g.post_n1 ELSE g.post_n2
                hasPost == IsSet(g.post_l) \/ IsSet(post_n)
                pre     == IF IsSet(g.pre_l)
                           THEN << CASE letter \in { <<"a">>, <<"a", "l", "p", "h", "a">> } -> 0
                                     [] letter \in { <<"b">>, <<"b", "e", "t", "a">> } -> 1
                                     [] OTHER -> 2,
                                   int(g.pre_n) >>
                           ELSE IF ~hasPost /\ IsSet(g.dev_l) THEN <<0 - 1, 0>>
                           ELSE <<3, 0>>
                post    == IF hasPost THEN <<0, int(post_n)>> ELSE <<0 - 1, 0>>
                dev     == IF IsSet(g.dev_l) THEN <<0, int(g.dev_n)>> ELSE <<1, 0>>
                parts   == IF IsSet(g.local) THEN SplitFrom(Get(g.local), SepChr, << >>) ELSE << >>
                local   == IF IsSet(g.local)
                           THEN Concat([k \in 1..Len(parts) |-> part(parts[k])]) \o <<0 - 1>>
                           ELSE <<0 - 2>>
            IN  <<int(g.epoch)>> \o SubSeq(release, 1, last) \o <<0 - 1>>
                \o pre \o post \o dev \o local
    IN  CHOOSE r \in { IF m = << >> THEN Raise("InvalidVersion") ELSE Ok(key(m[1].c)) :
                       m \in { Run(pattern, t, 0, [g \in groups |-> None]) : t \in {text} } } : TRUE

(* Version.__lt__.  packaging tells whether the packaging distribution,    *)
(* which __lt__ imports, is installed.  The operands of "and" are          *)
(* evaluated from left to right up to the first false one; the last one    *)
(* builds its default with dt.datetime(0, 0, 0, 0, 0, 0), which raises     *)
(* ValueError as year 0 is out of range.                                   *)
Version_lt(this, other, packaging) ==
    IF "base" \notin DOMAIN other THEN Raise("TypeError")
    ELSE IF ~packaging THEN Raise("ModuleNotFoundError")
    ELSE LET mine   == pv_Version(this.base)
             theirs == pv_Version(other.base)
             blank(value, default) == IF IsSet(value) THEN Get(value) ELSE default
             MinimalTimestamp == Raise("ValueError")
         IN  IF ~IsOk(mine) THEN mine
             ELSE IF ~IsOk(theirs) THEN theirs
             ELSE IF ~(/\ SeqLess(mine.val, theirs.val)
                       /\ StrLess(blank(this.stage, << >>), blank(other.stage, << >>))
                       /\ blank(this.revision, 0) < blank(other.revision, 0)
                       /\ this.distance < other.distance
                       /\ StrLess(blank(this.commit, << >>), blank(other.commit, << >>))
                       /\ (blank(this.dirty, FALSE) = FALSE /\ blank(other.dirty, FALSE) = TRUE)
                       /\ StrLess(blank(this.tagged_metadata, << >>),
                                  blank(other.tagged_metadata, << >>))
                       /\ blank(this.epoch, 0) < blank(other.epoch, 0)
                       /\ StrLess(blank(this.branch, << >>), blank(other.branch, << >>)))
                  THEN Ok(FALSE)
             ELSE IF ~IsOk(MinimalTimestamp) THEN MinimalTimestamp
             ELSE Ok(StrLess(blank(this.timestamp, MinimalTimestamp.val),
                             blank(other.timestamp, MinimalTimestamp.val)))

(* Version.__gt__ as functools.total_ordering derives it:                  *)
(* op_result = self < other; return not op_result and self != other        *)
Version_gt(this, other, packaging) ==
    LET op_result == Version_lt(this, other, packaging)
    IN  IF ~IsOk(op_result) THEN op_result
        ELSE Ok(~op_result.val /\ ~Version_eq(this, other).val)

-----------------------------------------------------------------------------
(* get_version *)

(* `found and not any(found._matches_partial(v) for v in ignore)` with the *)
(* slip of not looking at ignore                                           *)
AcceptedWhateverIgnored(found, ignore) == IsSet(found)

(* `found and not any(found._matches_partial(v) for v in ignore)`, for     *)
(* what a source found: None or a Version, which is always true-ish        *)
Accepted(found, ignore) ==
    /\ IsSet(found)
    /\ ~\E k \in 1..Len(ignore) : Version_matches_partial(Get(found), ignore[k]).val

(* get_version.  first_choice and third_choice are None or a callback,     *)
(* given by the outcome of calling it: a Version, None or an exception;    *)
(* installed is what importlib.metadata finds under the name: the version  *)
(* text of the distribution, or None for PackageNotFoundError; parser is   *)
(* Version or Version.parse.                                               *)
get_version(first_choice, installed, third_choice, fallback, ignore, parser) ==
    LET ilm_version ==
            IF parser = "Version.parse"
            THEN Version_parse(Get(installed), VERSION_SOURCE_PATTERN)
            ELSE Ok(PlainVersion(Get(installed)))
        third ==
            IF IsSet(third_choice) /\ ~IsOk(Get(third_choice)) THEN Get(third_choice)
            ELSE IF IsSet(third_choice) /\ Accepted(Get(third_choice).val, ignore)
                 THEN Ok(Get(Get(third_choice).val))
            ELSE Ok(fallback)
        second ==
            IF IsSet(installed) /\ ~IsOk(ilm_version) THEN ilm_version
            ELSE IF IsSet(installed) /\ Accepted(Some(ilm_version.val), ignore)
                 THEN ilm_version
            ELSE third
    IN  IF IsSet(first_choice) /\ ~IsOk(Get(first_choice)) THEN Get(first_choice)
        ELSE IF IsSet(first_choice) /\ Accepted(Get(first_choice).val, ignore)
             THEN Ok(Get(Get(first_choice).val))
        ELSE second

-----------------------------------------------------------------------------
(* Versions compared with one another and looked up *)

(* Versions that differ in base, stage, distance or dirty flag only; two   *)
(* versions with every field set, each field of the first below the same   *)
(* field of the second; each of the two with one field left unset; bases   *)
(* that packaging takes for the same release, for a pre-release, a post    *)
(* release, a release of a later epoch, or for no version.                 *)
Comparables ==
    LET LowVersion ==
            NewVersion(<<"1", ".", "0", ".", "0">>, Some(<< <<"a">>, Some(MaxRevision) >>),
                       MaxDistance,
                       Some(<<"a", "1">>), Some(FALSE), Some(<<"m", "1">>), Some(1),
                       Some(<<"b", "1">>),
                       Some(<<"2", "0", "2", "0", "0", "1", "0", "2", "0", "3", "0", "4", "0", "5">>))
        HighVersion ==
            NewVersion(<<"2", ".", "0", ".", "0">>, Some(<< <<"b">>, Some(MaxRevision + 1) >>),
                       MaxDistance + 1,
                       Some(<<"b", "2">>), Some(TRUE), Some(<<"m", "2">>), Some(2),
                       Some(<<"b", "2">>),
                       Some(<<"2", "0", "2", "1", "0", "1", "0", "2", "0", "3", "0", "4", "0", "5">>))
    IN
    { NewVersion(b, s, d, None, y, None, None, None, None) :
        b \in { <<"1", ".", "0", ".", "0">>, <<"2", ".", "0", ".", "0">> },
        s \in { None, Some(<< <<"a">>, Some(MaxRevision) >>) },
        d \in 0..MaxDistance, y \in Dirties }
    \cup { LowVersion, HighVersion }
    \cup { [v EXCEPT ![f] = None] :
             v \in {LowVersion, HighVersion},
             f \in {"commit", "dirty", "tagged_metadata", "epoch", "branch", "timestamp"} }
    \cup { [LowVersion EXCEPT !.distance = 0],
           [LowVersion EXCEPT !.revision = None],
           [LowVersion EXCEPT !.revision = Some(0)],
           [HighVersion EXCEPT !.base = LowVersion.base],
           PlainVersion(<<"1", ".", "0">>),
           PlainVersion(<<"1", ".", "0", "r", "c", "1">>),
           PlainVersion(<<"v", "1", ".", "0", ".", "p", "o", "s", "t", "1">>),
           PlainVersion(<<"1", "!", "0", ".", "1", "+", "a">>),
           PlainVersion(<<"", "1", ".", "0", "">>),
           PlainVersion(<<"1", ".", "x">>) }

InitCompare ==
    /\ op = "init"
    /\ args = << >>
    /\ ret = Raise("none")
    /\ self \in {None} \cup Comparables

CallEq ==
    /\ op = "init"
    /\ self # None
    /\ \E other \in Comparables \cup {NotAVersion} :
        /\ op' = "Version.__eq__"
        /\ args' = [other |-> other]
        /\ ret' = Version_eq(self, other)
        /\ UNCHANGED self

CallMatchesPartial ==
    /\ op = "init"
    /\ self # None
    /\ \E other \in Comparables \cup {NotAVersion} :
        /\ op' = "Version._matches_partial"
        /\ args' = [other |-> other]
        /\ ret' = Version_matches_partial(self, other)
        /\ UNCHANGED self

CallLt ==
    /\ op = "init"
    /\ self # None
    /\ \E other \in Comparables \cup {NotAVersion}, packaging \in BOOLEAN :
        /\ op' = "Version.__lt__"
        /\ args' = [other |-> other, packaging |-> packaging]
        /\ ret' = Version_lt(self, other, packaging)
        /\ UNCHANGED self

CallGt ==
    /\ op = "init"
    /\ self # None
    /\ \E other \in Comparables \cup {NotAVersion}, packaging \in BOOLEAN :
        /\ op' = "Version.__gt__"
        /\ args' = [other |-> other, packaging |-> packaging]
        /\ ret' = Version_gt(self, other, packaging)
        /\ UNCHANGED self

(* What a first or third choice may be: no callback, or a callback that    *)
(* returns None, returns a version, or raises                              *)
Choices ==
    { None, Some(Ok(None)), Some(Raise("RuntimeError")) }
    \cup { Some(Ok(Some(v))) :
             v \in { PlainVersion(<<"1", ".", "2", ".", "3">>),
                     PlainVersion(<<"0", ".", "9">>),
                     NewVersion(<<"1", ".", "2", ".", "3">>, None, MaxDistance,
                                Some(<<"g", "1", "f">>), None, None, None, None, None) } }

(* Lists of versions to ignore: none, one release whatever its distance,   *)
(* the default fallback, a release at one commit together with another     *)
IgnoreLists ==
    { << >>,
      << PlainVersion(<<"1", ".", "2", ".", "3">>) >>,
      << PlainVersion(<<"0", ".", "0", ".", "0">>) >>,
      << NewVersion(<<"1", ".", "2", ".", "3">>, None, MaxDistance,
                    Some(<<"g", "1", "f">>), None, None, None, None, None),
         PlainVersion(<<"0", ".", "9">>) >> }

(* get_version is a module-level function: it is called with no receiver *)
CallGetVersion ==
    /\ op = "init"
    /\ self = None
    /\ \E first_choice \in Choices, third_choice \in Choices, ignore \in IgnoreLists,
          installed \in { None, Some(<<"1", ".", "2", ".", "3">>), Some(<<"v", "0", ".", "9">>) },
          fallback \in { PlainVersion(<<"0", ".", "0", ".", "0">>),
                         PlainVersion(<<"1", ".", "2", ".", "3">>) },
          parser \in { "Version", "Version.parse" } :
        /\ op' = "get_version"
        /\ args' = [first_choice |-> first_choice, installed |-> installed,
                    third_choice |-> third_choice, fallback |-> fallback,
                    ignore |-> ignore, parser |-> parser]
        /\ ret' = get_version(first_choice, installed, third_choice, fallback, ignore, parser)
        /\ UNCHANGED self

NextCompare ==
    \/ CallEq
    \/ CallMatchesPartial
    \/ CallLt
    \/ CallGt
    \/ CallGetVersion
    \/ Return

SpecCompare == InitCompare /\ [][NextCompare]_vars

-----------------------------------------------------------------------------
(* Claims about _match_version_pattern *)

IsMatchCall == op = "_match_version_pattern"

(* The pattern matches candidate k of srcs. *)
MatchesAt(pattern, srcs, k) == IsSet(ReSearch(pattern.re, srcs[k]))

(* The pattern matches candidate k of srcs and its group 'base' took part. *)
HasBaseAt(pattern, srcs, k) ==
    /\ MatchesAt(pattern, srcs, k)
    /\ IsSet(Get(ReSearch(pattern.re, srcs[k])).c["base"])

MinOf(S) == CHOOSE k \in S : \A j \in S : k <= j

(* The candidates among the first n of srcs that the pattern does not match. *)
UnmatchedBefore(pattern, srcs, n) ==
    LET Unmatched(x) == IsNone(ReSearch(pattern.re, x))
    IN  SelectSeq(Slice(srcs, 0, n), Unmatched)

NumericFailure == ret.kind \in {"BadRevision", "BadEpoch"}

(* C1 as stated: with latest_source = false the first candidate that       *)
(* matches (with a base) is returned as matched_tag and newer_tags is      *)
(* exactly the sequence of all candidates before it; with no matching      *)
(* candidate the call fails with the pattern error.                        *)
C1_NewerTagsAreAllPreceding ==
    (IsMatchCall /\ ~args.latest_source /\ "base" \in PatternOf(args.pattern).groups) =>
        LET pattern == PatternOf(args.pattern)
            srcs    == args.sources
            hits    == {k \in 1..Len(srcs) : HasBaseAt(pattern, srcs, k)}
        IN  IF hits = {} THEN ret.kind = "NoMatchAny"
            ELSE \/ NumericFailure
                 \/ /\ IsOk(ret)
                    /\ ret.val.matched_tag = srcs[MinOf(hits)]
                    /\ ret.val.newer_tags = Slice(srcs, 0, MinOf(hits) - 1)

(* C1 amended: with latest_source = false the first candidate that the     *)
(* pattern matches with 'base' captured is returned as matched_tag with    *)
(* that base; newer_tags is, in the original order, the candidates before  *)
(* it that the pattern does not match at all; the candidates after it do   *)
(* not influence the outcome; with no such candidate the call fails with   *)
(* the pattern error.                                                      *)
C1_FirstMatchAndUnmatchedNewer ==
    (IsMatchCall /\ ~args.latest_source /\ "base" \in PatternOf(args.pattern).groups) =>
        LET pattern == PatternOf(args.pattern)
            srcs    == args.sources
            hits    == {k \in 1..Len(srcs) : HasBaseAt(pattern, srcs, k)}
        IN  IF hits = {} THEN ret.kind = "NoMatchAny"
            ELSE /\ ret = match_version_pattern(pattern, Slice(srcs, 0, MinOf(hits)), FALSE)
                 /\ \/ NumericFailure
                    \/ /\ IsOk(ret)
                       /\ ret.val.matched_tag = srcs[MinOf(hits)]
                       /\ ret.val.base = Get(Get(ReSearch(pattern.re, srcs[MinOf(hits)])).c["base"])
                       /\ ret.val.newer_tags = UnmatchedBefore(pattern, srcs, MinOf(hits) - 1)

(* C1 witness: a scan that skipped an unmatched candidate and one matched  *)
(* without a base, returned the third candidate.                           *)
C1_Witness ==
    /\ IsMatchCall /\ ~args.latest_source /\ IsOk(ret)
    /\ Len(args.sources) = 3
    /\ ret.val.matched_tag = args.sources[3]
    /\ Len(ret.val.newer_tags) = 1
    /\ \E k \in 1..2 : /\ MatchesAt(PatternOf(args.pattern), args.sources, k)
                       /\ ~HasBaseAt(PatternOf(args.pattern), args.sources, k)

(* C6 as stated: a pattern without a group named 'base' makes the call     *)
(* fail with the "did not include required capture group 'base'" error     *)
(* for every candidate sequence and both values of latest_source.          *)
C6_NoBaseGroupAlwaysReported ==
    (IsMatchCall /\ "base" \notin PatternOf(args.pattern).groups) =>
        ret.kind = "NoBaseGroup"

(* C7 as stated: with latest_source = true only the first candidate is     *)
(* tested: on a match it is returned with empty newer_tags, on a miss the  *)
(* call fails with the pattern error, for every candidate sequence, the    *)
(* empty one included.                                                     *)
C7_LatestOnlyFirstCandidate ==
    (IsMatchCall /\ args.latest_source /\ "base" \in PatternOf(args.pattern).groups) =>
        LET pattern == PatternOf(args.pattern)
            srcs    == args.sources
        IN  IF srcs # << >> /\ HasBaseAt(pattern, srcs, 1)
            THEN \/ NumericFailure
                 \/ /\ IsOk(ret)
                    /\ ret.val.matched_tag = srcs[1]
                    /\ ret.val.newer_tags = << >>
            ELSE ret.kind = "NoMatchLatest"

-----------------------------------------------------------------------------
(* Claims about bump_version *)

IsBumpVersionCall == op = "bump_version"

(* The base is a dot-delimited sequence of non-negative integers. *)
IsNumericBase(base) ==
    \A k \in 1..Len(Split(base, ".")) :
        LET seg == Split(base, ".")[k]
        IN  seg # << >> /\ \A j \in 1..Len(seg) : seg[j] \in Digit

(* A segment that is no number: empty, or holding a letter. *)
HasNonNumericSegment(base) ==
    \E k \in 1..Len(Split(base, ".")) :
        LET seg == Split(base, ".")[k]
        IN  seg = << >> \/ \E j \in 1..Len(seg) : seg[j] \in Alpha

(* The value of a segment written in digits. *)
RECURSIVE SegmentValue(_)
SegmentValue(seg) ==
    IF seg = << >> THEN 0
    ELSE 10 * SegmentValue(Slice(seg, 0, Len(seg) - 1)) + DigitVal(seg[Len(seg)])

(* What C8 says the result is: position index (from the end when negative) *)
(* incremented, everything to its right 0, everything to its left kept.    *)
BumpedAsClaimed(base, index) ==
    LET segs == Split(base, ".")
        n    == Len(segs)
        pos  == IF index < 0 THEN n + index + 1 ELSE index + 1
    IN  [k \in 1..n |-> IF k < pos THEN SegmentValue(segs[k])
                        ELSE IF k = pos THEN SegmentValue(segs[k]) + 1
                        ELSE 0]

(* C8: bump_version(base, index) increments the segment at index (negative *)
(* indices count from the end), sets every segment to its right to 0,      *)
(* keeps every segment to its left and the number of segments; the three   *)
(* examples of the spec hold; a non-numeric segment makes the call fail.   *)
C8_BumpVersion ==
    IsBumpVersionCall =>
        LET base  == args.base
            index == args.index
            n     == Len(Split(base, "."))
        IN  /\ (IsNumericBase(base) /\ index < n /\ index >= 0 - n) =>
                 /\ IsOk(ret)
                 /\ Len(Split(ret.val, ".")) = n
                 /\ IsNumericBase(ret.val)
                 /\ [k \in 1..n |-> SegmentValue(Split(ret.val, ".")[k])] = BumpedAsClaimed(base, index)
                 /\ ret.val = Join(StrEach(BumpedAsClaimed(base, index)), <<".">>)
            /\ HasNonNumericSegment(base) => ret.kind = "ValueError"
            /\ (base = <<"1", ".", "2", ".", "3">> /\ index = 0 - 1) => ret = Ok(<<"1", ".", "2", ".", "4">>)
            /\ (base = <<"1", ".", "2", ".", "3">> /\ index = 0) => ret = Ok(<<"2", ".", "0", ".", "0">>)
            /\ (base = <<"1", ".", "2", ".", "3">> /\ index = 1) => ret = Ok(<<"1", ".", "3", ".", "0">>)

(* C8 witness: a negative index in the middle, with a carry into a second  *)
(* digit and a reset to its right.                                         *)
C8_Witness ==
    /\ IsBumpVersionCall
    /\ args.base = <<"1", ".", "9", ".", "3">>
    /\ args.index = 0 - 2
    /\ ret = Ok(<<"1", ".", "1", "0", ".", "0">>)

-----------------------------------------------------------------------------
(* Claims about the serializers and Version.serialize *)

IsSerializerCall == op \in {"serialize_pep440", "serialize_semver", "serialize_pvp"}

IsBuiltInSerialize == op = "Version.serialize" /\ IsNone(args.format)

(* The style the call renders for *)
TargetStyle ==
    CASE op = "serialize_pep440" -> "Pep440"
      [] op = "serialize_semver" -> "SemVer"
      [] op = "serialize_pvp" -> "Pvp"
      [] OTHER -> IF IsNone(args.style) THEN "Pep440" ELSE Get(args.style)

(* No metadata segment is rendered: metadata is switched off, or each      *)
(* segment is either not asked for or not there.                           *)
NoMetadataRendered ==
    \/ args.metadata = Some(FALSE)
    \/ /\ ~(args.tagged_metadata /\ IsSet(self.tagged_metadata))
       /\ ~((args.metadata = Some(TRUE) \/ self.distance > 0) /\ IsSet(self.commit))
       /\ ~(args.dirty /\ self.dirty = Some(TRUE))

(* A built-in serialization without bump that returned a string *)
RoundTripCall == IsBuiltInSerialize /\ IsSet(args.style) /\ ~args.bump /\ IsOk(ret)

Reparsed == Version_parse(ret.val, VERSION_SOURCE_PATTERN)

(* The PEP 440 spelling of a stage label *)
Pep440Label(stage) ==
    LET low == [k \in 1..Len(stage) |-> LowerOf(stage[k])]
    IN  IF low = <<"a", "l", "p", "h", "a">> THEN <<"a">>
        ELSE IF low = <<"b", "e", "t", "a">> THEN <<"b">>
        ELSE IF low \in { <<"c">>, <<"p", "r", "e">>, <<"p", "r", "e", "v", "i", "e", "w">> }
        THEN <<"r", "c">>
        ELSE low

(* C2 as stated: for a Version serialized with a built-in style, without   *)
(* bump and custom format, Version.parse of the result has the Version's   *)
(* base and, when the Version had a stage, its stage and revision.         *)
C2_RoundTripRecoversBaseAndStage ==
    RoundTripCall =>
        /\ IsOk(Reparsed)
        /\ Reparsed.val.base = self.base
        /\ IsSet(self.stage) =>
             /\ Reparsed.val.stage = self.stage
             /\ Reparsed.val.revision = self.revision

(* C2 amended: when the Version has distance 0 and the serialization       *)
(* (built-in style, no bump, no custom format) succeeds and renders no     *)
(* metadata segment, Version.parse of the result has the Version's base;   *)
(* when the Version had a stage, SemVer and PVP give back its stage and    *)
(* revision, while PEP 440 gives back the stage in its PEP 440 spelling    *)
(* and the revision with an absent revision read back as 0, except that a  *)
(* stage "post" or "dev" with absent revision is not rendered and is read  *)
(* back as no stage.                                                       *)
C2_RoundTripOfUndistancedRelease ==
    (RoundTripCall /\ self.distance = 0 /\ NoMetadataRendered) =>
        /\ IsOk(Reparsed)
        /\ Reparsed.val.base = self.base
        /\ IsSet(self.stage) =>
             IF Get(args.style) \in {"SemVer", "Pvp"}
             THEN /\ Reparsed.val.stage = self.stage
                  /\ Reparsed.val.revision = self.revision
             ELSE IF Get(self.stage) \in { <<"p", "o", "s", "t">>, <<"d", "e", "v">> }
                     /\ IsNone(self.revision)
             THEN /\ IsNone(Reparsed.val.stage)
                  /\ IsNone(Reparsed.val.revision)
             ELSE /\ Reparsed.val.stage = Some(Pep440Label(Get(self.stage)))
                  /\ Reparsed.val.revision =
                        Some(IF IsNone(self.revision) THEN 0 ELSE Get(self.revision))

(* C2 witness: a PEP 440 round trip of stage "alpha" without revision,     *)
(* read back as stage "a", revision 0.                                     *)
C2_Witness ==
    /\ RoundTripCall /\ self.distance = 0 /\ NoMetadataRendered
    /\ args.style = Some("Pep440")
    /\ self.stage = Some(<<"a", "l", "p", "h", "a">>)
    /\ IsNone(self.revision)
    /\ Reparsed.val.base = self.base
    /\ Reparsed.val.stage = Some(<<"a">>)
    /\ Reparsed.val.revision = Some(0)

(* C3: serialize_pep440, serialize_semver, serialize_pvp and               *)
(* Version.serialize without a custom format return only strings that      *)
(* check_version accepts for the target style (PEP 440 when no style is    *)
(* given); on any other rendering they raise.                              *)
C3_SerializersReturnOnlyValidStrings ==
    ((IsSerializerCall \/ IsBuiltInSerialize) /\ IsOk(ret)) =>
        IsOk(check_version(ret.val, TargetStyle))

(* C3 witness: a direct serialize_pep440 call with an aliased stage, an    *)
(* epoch, post, dev and two metadata segments returned a valid string.     *)
C3_Witness ==
    /\ op = "serialize_pep440"
    /\ args.base = <<"1", ".", "2", ".", "3">>
    /\ args.stage = Some(<<"P", "r", "e", "v", "i", "e", "w">>)
    /\ args.revision = Some(1) /\ args.post = Some(0) /\ args.dev = Some(1)
    /\ args.epoch = Some(0)
    /\ Len(args.metadata) = 2
    /\ ret = Ok(<<"0", "!", "1", ".", "2", ".", "3", "r", "c", "1", ".", "p", "o", "s", "t", "0",
                  ".", "d", "e", "v", "1", "+", "m", "1", ".", "g", "1", "f">>)

(* The fields satisfy the data model: a numeric dot-delimited base, an     *)
(* alphabetic stage, non-negative revision, distance and epoch.            *)
WellFormed(v) ==
    /\ IsNumericBase(v.base)
    /\ IsSet(v.stage) => /\ Get(v.stage) # << >>
                         /\ \A k \in 1..Len(Get(v.stage)) : Get(v.stage)[k] \in Alpha
    /\ IsSet(v.revision) => Get(v.revision) >= 0
    /\ v.distance >= 0
    /\ IsSet(v.epoch) => Get(v.epoch) >= 0

(* commit and tagged_metadata, where set, are non-empty and alphanumeric *)
AlnumMetadata(v) ==
    /\ IsSet(v.commit) => /\ Get(v.commit) # << >>
                          /\ \A k \in 1..Len(Get(v.commit)) : Get(v.commit)[k] \in AlNum
    /\ IsSet(v.tagged_metadata) =>
          /\ Get(v.tagged_metadata) # << >>
          /\ \A k \in 1..Len(Get(v.tagged_metadata)) : Get(v.tagged_metadata)[k] \in AlNum

(* The base that is rendered: bumped in its last segment when bump is set, *)
(* distance > 0 and there is no stage.                                     *)
RenderedBase ==
    IF args.bump /\ self.distance > 0 /\ IsNone(self.stage)
    THEN Join(StrEach(BumpedAsClaimed(self.base, 0 - 1)), <<".">>)
    ELSE self.base

(* What each style admits of a well-formed Version *)
StyleAdmits ==
    CASE TargetStyle = "Pvp" -> TRUE
      [] TargetStyle = "SemVer" ->
            LET segs == Split(RenderedBase, ".")
            IN  /\ Len(segs) = 3
                /\ \A k \in 1..Len(segs) : ~(Len(segs[k]) > 1 /\ segs[k][1] = "0")
      [] TargetStyle = "Pep440" ->
            \/ IsNone(self.stage)
            \/ Get(self.stage) \in { <<"p", "o", "s", "t">>, <<"d", "e", "v">> }
            \/ Pep440Label(Get(self.stage)) \in { <<"a">>, <<"b">>, <<"r", "c">> }

(* C4 as stated: for every Version whose fields satisfy the data model,    *)
(* built-in serialization succeeds in each of the three styles.            *)
C4_WellFormedAlwaysSerializes ==
    (IsBuiltInSerialize /\ WellFormed(self)) => IsOk(ret)

(* C4 amended: for a Version whose fields satisfy the data model and whose *)
(* commit and tagged_metadata are alphanumeric, built-in serialization     *)
(* succeeds in PVP always, in PEP 440 exactly when the stage is unset, is  *)
(* "post" or "dev", or is, case-insensitively, one of a, b, rc, alpha,     *)
(* beta, c, pre, preview, and in SemVer exactly when the rendered base has *)
(* three segments none of which is written with a leading zero; otherwise  *)
(* the validation step rejects the rendered string with ValueError.        *)
C4_WellFormedSerializesWhereStyleAdmits ==
    (IsBuiltInSerialize /\ WellFormed(self) /\ AlnumMetadata(self)) =>
        /\ IsOk(ret) <=> StyleAdmits
        /\ ~IsOk(ret) => ret.kind = "ValueError"

(* C4 witness: a well-formed pre-release with distance rendered in SemVer *)
C4_Witness ==
    /\ IsBuiltInSerialize /\ WellFormed(self) /\ AlnumMetadata(self)
    /\ args.style = Some("SemVer") /\ ~args.bump
    /\ self.base = <<"1", ".", "2", ".", "3">>
    /\ self.stage = Some(<<"a", "l", "p", "h", "a">>) /\ self.revision = Some(0)
    /\ self.distance = 1
    /\ IsOk(ret)

-----------------------------------------------------------------------------
(* Claims about Version.parse and Version.bump *)

IsParseCall == op = "Version.parse"

IsBumpCall == op = "Version.bump"

(* The candidate the pattern is matched against *)
WithV(version) ==
    IF Len(version) > 0 /\ version[1] = "v" THEN version ELSE <<"v">> \o version

(* The matcher's outcome for the input of the parse call *)
MatchOfInput == match_version_pattern(PatternOf(args.pattern), <<WithV(args.version)>>, TRUE)

(* C5 as stated: Version.parse returns no partial or best-effort Version:  *)
(* every Version it returns has a base that is a non-empty dot-delimited   *)
(* sequence of non-negative integers, and an input that the pattern does   *)
(* not match results in an error.                                          *)
C5_ParseValidOrRaises ==
    IsParseCall =>
        /\ IsOk(ret) => IsNumericBase(ret.val.base)
        /\ ~MatchesAt(PatternOf(args.pattern), <<WithV(args.version)>>, 1) => ~IsOk(ret)

(* C5 amended: Version.parse returns a Version for every input string and  *)
(* never raises: when the matcher accepts the input (prefixed with "v" if  *)
(* it does not start so) the base is the captured group; when the matcher  *)
(* rejects it (no match, no base captured, a revision or epoch that is no  *)
(* integer) the result is Version(input): the base is the input verbatim   *)
(* and every other field has its default.                                  *)
C5_ParseIsBestEffort ==
    IsParseCall =>
        /\ IsOk(ret)
        /\ IF IsOk(MatchOfInput)
           THEN ret.val.base = MatchOfInput.val.base
           ELSE ret.val = PlainVersion(args.version)

(* C5 witness: an input the default pattern does not match came back as    *)
(* the base of a Version.                                                  *)
C5_Witness ==
    /\ IsParseCall
    /\ args.pattern = "VERSION_SOURCE_PATTERN"
    /\ args.version = <<"1", ".", "0", ".", "0", ".", "p", "o", "s", "t", "3", ".", "d", "e", "v", "0">>
    /\ ~MatchesAt(VERSION_SOURCE_PATTERN, <<WithV(args.version)>>, 1)
    /\ IsOk(ret)
    /\ ret.val.base = args.version

(* C9: Version.bump(index) with no stage returns the receiver with base    *)
(* bump_version(base, index) (failing as bump_version fails), revision     *)
(* still unset; with a stage it returns the receiver with revision + 1, or *)
(* 2 when the revision is absent, and the same base for every index; every *)
(* other field of the result is the receiver's.                            *)
C9_VersionBump ==
    IsBumpCall =>
        IF IsNone(self.stage)
        THEN IF IsOk(bump_version(self.base, args.index))
             THEN /\ ret = Ok([self EXCEPT !.base = bump_version(self.base, args.index).val])
                  /\ IsNone(ret.val.revision)
             ELSE ret = bump_version(self.base, args.index)
        ELSE /\ IsOk(ret)
             /\ ret.val.base = self.base
             /\ ret.val.revision = Some(IF IsNone(self.revision) THEN 2 ELSE Get(self.revision) + 1)
             /\ ret.val = [self EXCEPT !.revision = ret.val.revision]

(* C9 witness: a release candidate without revision, bumped at index 0,    *)
(* keeps its base and gets revision 2.                                     *)
C9_Witness ==
    /\ IsBumpCall
    /\ args.index = 0
    /\ self.base = <<"1", ".", "2", ".", "3">>
    /\ self.stage = Some(<<"r", "c">>)
    /\ IsNone(self.revision)
    /\ IsSet(self.branch)
    /\ IsOk(ret)
    /\ ret.val.base = self.base
    /\ ret.val.revision = Some(2)
    /\ ret.val.branch = self.branch

(* C10: no call of Version.bump or Version.serialize changes a field of    *)
(* its receiver, in any sequence of calls: not serialize with bump = true, *)
(* and not serialize with a callback that changes its argument.            *)
C10_ReceiverUnchanged ==
    [][op' \in {"Version.bump", "Version.serialize"} => self' = self]_vars

(* C10 witness: serialize with bump = true and a callback that resets its  *)
(* argument returned the bumped base, and the receiver still has its own.  *)
C10_Witness ==
    /\ op = "Version.serialize"
    /\ args.bump
    /\ args.format = Some([kind |-> "callback", id |-> "resets_its_argument"])
    /\ self.base = <<"1", ".", "2", ".", "3">>
    /\ IsNone(self.stage)
    /\ self.distance = 1
    /\ IsSet(self.commit)
    /\ ret = Ok(<<"1", ".", "2", ".", "4", "+", "1">>)

-----------------------------------------------------------------------------
(* Claims about bump, distance and the segments Version.serialize renders *)

StartsWith(s, prefix) == Slice(s, 0, Len(prefix)) = prefix

(* The revision that is rendered: with bump set, distance > 0 and a stage, *)
(* the revision + 1, or 2 when there was none.                             *)
RenderedRevision ==
    IF args.bump /\ self.distance > 0 /\ IsSet(self.stage)
    THEN Some(IF IsNone(self.revision) THEN 2 ELSE Get(self.revision) + 1)
    ELSE self.revision

(* C11: serialize(bump=true) bumps only when distance > 0.  With distance  *)
(* 0 the outcome equals that of the same call with bump=false.  With       *)
(* distance > 0 the rendered base and revision are those of self.bump()    *)
(* (last base segment + 1 when there is no stage, failing as bump fails on *)
(* a base that is no number; otherwise revision + 1, or 2) and everything  *)
(* else is rendered from the receiver's own fields; in SemVer the output   *)
(* starts with that base, followed by "-", the stage and that revision.    *)
C11_BumpOnlyWithDistance ==
    (IsBuiltInSerialize /\ args.bump) =>
        IF self.distance = 0
        THEN ret = Version_serialize(self, args.metadata, args.dirty, None, args.style,
                                     FALSE, args.tagged_metadata).ret
        ELSE IF IsNone(self.stage) /\ ~IsNumericBase(self.base)
        THEN ret.kind = "ValueError"
        ELSE /\ ret = BuiltIn(self, RenderedBase, RenderedRevision, args.metadata, args.dirty,
                              args.style, TRUE, args.tagged_metadata)
             /\ (IsOk(ret) /\ args.style = Some("SemVer")) =>
                    StartsWith(ret.val,
                               RenderedBase \o
                               (IF IsSet(self.stage)
                                THEN <<"-">> \o Get(self.stage) \o <<".">>
                                     \o IntStr(Get(RenderedRevision)) \o <<".">>
                                ELSE <<"-">>)
                               \o <<"p", "r", "e", ".">> \o IntStr(self.distance))

(* C11 witness: a release candidate without revision at distance 1,        *)
(* serialized with bump in SemVer, renders revision 2 and its own base.    *)
C11_Witness ==
    /\ IsBuiltInSerialize /\ args.bump
    /\ args.style = Some("SemVer") /\ args.metadata = Some(FALSE)
    /\ self.base = <<"1", ".", "2", ".", "3">>
    /\ self.stage = Some(<<"r", "c">>) /\ IsNone(self.revision)
    /\ self.distance = 1
    /\ ret = Ok(<<"1", ".", "2", ".", "3", "-", "r", "c", ".", "2", ".", "p", "r", "e", ".", "1">>)

-----------------------------------------------------------------------------
(* Claims about the metadata decomposition of Version.parse *)

(* The metadata the pattern captured from the input of the parse call *)
CapturedMetadata == IF IsOk(MatchOfInput) THEN MatchOfInput.val.tagged_metadata ELSE None

(* Its "."-separated parts; none when nothing was captured *)
MetadataParts ==
    IF IsSet(CapturedMetadata) /\ Get(CapturedMetadata) # << >>
    THEN Split(Get(CapturedMetadata), ".") ELSE << >>

(* The parts of the residual tagged_metadata of the result *)
ResidualParts ==
    IF IsSet(ret.val.tagged_metadata) THEN Split(Get(ret.val.tagged_metadata), ".") ELSE << >>

AllIn(s, set) == \A k \in 1..Len(s) : s[k] \in set

WithoutLeading(part, ch) == IF part # << >> /\ part[1] = ch THEN Tail(part) ELSE part

IsDirtyToken(part) == part \in { <<"d", "i", "r", "t", "y">>, <<"c", "l", "e", "a", "n">> }

(* The whole part is an optional leading "d" followed by digits *)
IsDistanceShape(part) ==
    WithoutLeading(part, "d") # << >> /\ AllIn(WithoutLeading(part, "d"), Digit)

(* The whole part is an optional leading "g" followed by alphanumerics;    *)
(* "g" is itself alphanumeric.                                             *)
IsCommitShape(part) == part # << >> /\ AllIn(part, AlNum)

(* The alphanumerics of such a part, with "g" read as prefix or not *)
CommitValues(part) ==
    {part} \cup (IF Len(part) > 1 /\ part[1] = "g" THEN {Tail(part)} ELSE {})

(* C12 as stated: in Version.parse a part of the captured metadata is      *)
(* claimed for dirty only if it is exactly "dirty" (true) or "clean"       *)
(* (false), for distance only if the whole part is an optional "d" and     *)
(* digits (the value being those digits), for commit only if the whole     *)
(* part is an optional "g" and alphanumerics (the value being those        *)
(* alphanumerics); a part of any other shape is not claimed and stays in   *)
(* the residual tagged_metadata; parse("0.3.0a3+d7.gb6a9020.dirty") gives  *)
(* base "0.3.0", stage "a", revision 3, distance 7, commit "b6a9020",      *)
(* dirty true and no tagged_metadata.                                      *)
C12_PartsClaimedByWholeShape ==
    (IsParseCall /\ IsOk(MatchOfInput)) =>
        /\ IsOk(ret)
        /\ ret.val.dirty = Some(TRUE) =>
              \E k \in 1..Len(MetadataParts) : MetadataParts[k] = <<"d", "i", "r", "t", "y">>
        /\ ret.val.dirty = Some(FALSE) =>
              \E k \in 1..Len(MetadataParts) : MetadataParts[k] = <<"c", "l", "e", "a", "n">>
        /\ ret.val.distance # 0 =>
              \E k \in 1..Len(MetadataParts) :
                  /\ IsDistanceShape(MetadataParts[k])
                  /\ SegmentValue(WithoutLeading(MetadataParts[k], "d")) = ret.val.distance
        /\ IsSet(ret.val.commit) =>
              \E k \in 1..Len(MetadataParts) :
                  /\ IsCommitShape(MetadataParts[k])
                  /\ Get(ret.val.commit) \in CommitValues(MetadataParts[k])
        /\ \A k \in 1..Len(MetadataParts) :
              (/\ ~IsDirtyToken(MetadataParts[k])
               /\ ~IsDistanceShape(MetadataParts[k])
               /\ ~IsCommitShape(MetadataParts[k])
               /\ Strip(MetadataParts[k]) # << >>) =>
                  \E j \in 1..Len(ResidualParts) : ResidualParts[j] = MetadataParts[k]
        /\ (/\ args.pattern = "VERSION_SOURCE_PATTERN"
            /\ args.version = <<"0", ".", "3", ".", "0", "a", "3", "+", "d", "7", ".",
                                "g", "b", "6", "a", "9", "0", "2", "0", ".",
                                "d", "i", "r", "t", "y">>) =>
              ret = Ok(NewVersion(<<"0", ".", "3", ".", "0">>, Some(<< <<"a">>, Some(3) >>), 7,
                                  Some(<<"b", "6", "a", "9", "0", "2", "0">>), Some(TRUE),
                                  None, None, None, None))

(* The longest prefix of s made of characters of set *)
PrefixIn(s, set) ==
    LET n == CHOOSE n \in 0..Len(s) :
                 /\ \A k \in 1..n : s[k] \in set
                 /\ n = Len(s) \/ s[n + 1] \notin set
    IN  Slice(s, 0, n)

(* What a part offers a slot: after an optional leading ch, read as prefix *)
(* when a character of set follows it, the longest run of set.             *)
ClaimedText(part, ch, set) ==
    PrefixIn(IF Len(part) > 1 /\ part[1] = ch /\ part[2] \in set THEN Tail(part) ELSE part, set)

QualifiesForDistance(part) == ClaimedText(part, "d", Digit) # << >>

QualifiesForCommit(part) == ClaimedText(part, "g", Digit \cup Lower) # << >>

(* The first index of S, 0 when there is none *)
FirstOf(S) == IF S = {} THEN 0 ELSE MinOf(S)

(* The part that fills each slot: the first "dirty" or "clean", then the   *)
(* first other part that qualifies for the distance, then the first part   *)
(* left by both that qualifies for the commit.                             *)
DirtyIndex == FirstOf({ k \in 1..Len(MetadataParts) : IsDirtyToken(MetadataParts[k]) })

DistanceIndex ==
    FirstOf({ k \in 1..Len(MetadataParts) :
                k # DirtyIndex /\ QualifiesForDistance(MetadataParts[k]) })

CommitIndex ==
    FirstOf({ k \in 1..Len(MetadataParts) :
                k \notin {DirtyIndex, DistanceIndex} /\ QualifiesForCommit(MetadataParts[k]) })

(* The parts no slot claimed, in their order *)
UnclaimedParts ==
    LET Keep(k) == k \notin {DirtyIndex, DistanceIndex, CommitIndex}
        kept    == SelectSeq([k \in 1..Len(MetadataParts) |-> k], Keep)
    IN  [j \in 1..Len(kept) |-> MetadataParts[kept[j]]]

(* dirty, distance and commit as the slots are filled *)
SlotsAsClaimed ==
    /\ IsOk(ret)
    /\ ret.val.dirty = IF DirtyIndex = 0 THEN None
                       ELSE Some(MetadataParts[DirtyIndex] = <<"d", "i", "r", "t", "y">>)
    /\ ret.val.distance = IF DistanceIndex = 0 THEN 0
                          ELSE SegmentValue(ClaimedText(MetadataParts[DistanceIndex], "d", Digit))
    /\ ret.val.commit = IF CommitIndex = 0 THEN None
                        ELSE Some(ClaimedText(MetadataParts[CommitIndex], "g", Digit \cup Lower))

(* C13 as stated: each slot is filled at most once, by the first part in   *)
(* left-to-right order that qualifies for a still-empty slot, each part    *)
(* fills at most one slot, distance is 0 when no part was claimed for it,  *)
(* and the residual tagged_metadata is exactly the unclaimed parts in      *)
(* their order joined with ".", unset when no part is left.                *)
C13_ResidualUnsetOnlyWhenNoPartLeft ==
    (IsParseCall /\ IsOk(MatchOfInput)) =>
        /\ SlotsAsClaimed
        /\ ret.val.tagged_metadata =
              IF UnclaimedParts = << >> THEN None ELSE Some(Join(UnclaimedParts, <<".">>))

(* C13 amended: as stated, except that the residual tagged_metadata is     *)
(* unset whenever the unclaimed parts joined with "." give an empty or     *)
(* all-whitespace string, which includes parts being left.                 *)
C13_SlotsFilledOnceResidualJoined ==
    (IsParseCall /\ IsOk(MatchOfInput)) =>
        /\ SlotsAsClaimed
        /\ ret.val.tagged_metadata =
              IF Strip(Join(UnclaimedParts, <<".">>)) = << >> THEN None
              ELSE Some(Join(UnclaimedParts, <<".">>))

(* C13 witness: of five parts "dirty" fills dirty, the later "clean" the   *)
(* commit, "5" the distance, and "6" and "abc" are left in their order.    *)
C13_Witness ==
    /\ IsParseCall /\ IsOk(MatchOfInput)
    /\ Len(MetadataParts) = 5
    /\ DirtyIndex = 1 /\ CommitIndex = 2 /\ DistanceIndex = 3
    /\ ret.val.dirty = Some(TRUE)
    /\ ret.val.commit = Some(<<"c", "l", "e", "a", "n">>)
    /\ ret.val.distance = 5
    /\ ret.val.tagged_metadata = Some(<<"6", ".", "a", "b", "c">>)

-----------------------------------------------------------------------------
(* Claims about the segments of the built-in styles *)

IsPostStage == self.stage = Some(<<"p", "o", "s", "t">>)

IsDevStage == self.stage = Some(<<"d", "e", "v">>)

(* post and dev as C14 gives them.  A "post" or "dev" stage without        *)
(* revision is a case C14 leaves open: without bump it is rendered as in   *)
(* (a), with bump its revision is the bumped one, 2.                       *)
ClaimedPostDev ==
    LET d == self.distance
        r == self.revision
    IN  IF d = 0
        THEN [post |-> IF IsPostStage THEN r ELSE None, dev |-> IF IsDevStage THEN r ELSE None]
        ELSE IF ~args.bump
        THEN IF IsPostStage /\ IsSet(r) THEN [post |-> r, dev |-> Some(d)]
             ELSE IF IsDevStage /\ IsSet(r) THEN [post |-> None, dev |-> Some(Get(r) + d)]
             ELSE [post |-> Some(d), dev |-> Some(0)]
        ELSE IF IsDevStage
        THEN [post |-> None, dev |-> Some((IF IsSet(r) THEN Get(r) + 1 ELSE 2) + d)]
        ELSE [post |-> IF IsPostStage THEN Some(IF IsSet(r) THEN Get(r) + 1 ELSE 2) ELSE None,
              dev |-> Some(d)]

(* The PEP 440 text before the local version: epoch, base, stage and       *)
(* revision, post, dev.                                                    *)
ClaimedPep440Release ==
    Concat(<<
        IF IsSet(self.epoch) THEN IntStr(Get(self.epoch)) \o <<"!">> ELSE << >>,
        RenderedBase,
        IF IsSet(self.stage) /\ ~IsPostStage /\ ~IsDevStage
        THEN Pep440Label(Get(self.stage))
             \o IntStr(IF IsSet(RenderedRevision) THEN Get(RenderedRevision) ELSE 0)
        ELSE << >>,
        IF IsSet(ClaimedPostDev.post)
        THEN <<".", "p", "o", "s", "t">> \o IntStr(Get(ClaimedPostDev.post)) ELSE << >>,
        IF IsSet(ClaimedPostDev.dev)
        THEN <<".", "d", "e", "v">> \o IntStr(Get(ClaimedPostDev.dev)) ELSE << >> >>)

(* C14: Version.serialize in PEP 440 style with distance d > 0 renders     *)
(* (a) without bump and with a stage that is neither "post" nor "dev":     *)
(* post d and dev 0; (b) without bump, stage "post" with revision r: post  *)
(* r and dev d; (c) stage "dev" with revision r: dev r + d without bump,   *)
(* (r + 1) + d with bump; (d) with bump and no "dev" stage: dev d and no   *)
(* post segment made of the distance.  With distance 0 no post or dev is   *)
(* derived from the distance.  Version("1.0.0", distance=3) without commit *)
(* renders "1.0.0.post3.dev0".                                             *)
C14_Pep440DistanceSegments ==
    (IsBuiltInSerialize /\ TargetStyle = "Pep440" /\ IsOk(ret)) =>
        /\ BeforeFirst(ret.val, "+") = ClaimedPep440Release
        /\ (/\ self = NewVersion(<<"1", ".", "0", ".", "0">>, None, 3, None, None, None,
                                 None, None, None)
            /\ ~args.bump) =>
              ret.val = <<"1", ".", "0", ".", "0", ".", "p", "o", "s", "t", "3", ".", "d", "e", "v", "0">>

(* C14 witness: Version("1.0.0", distance=3) rendered "1.0.0.post3.dev0" *)
C14_Witness ==
    /\ IsBuiltInSerialize /\ TargetStyle = "Pep440" /\ ~args.bump
    /\ self.base = <<"1", ".", "0", ".", "0">> /\ IsNone(self.stage) /\ self.distance = 3
    /\ IsNone(self.commit)
    /\ ret = Ok(<<"1", ".", "0", ".", "0", ".", "p", "o", "s", "t", "3", ".", "d", "e", "v", "0">>)

(* The prerelease list as C15 gives it *)
ClaimedPreParts ==
    (IF IsSet(self.stage)
     THEN <<Get(self.stage)>>
          \o (IF IsSet(RenderedRevision) THEN <<IntStr(Get(RenderedRevision))>> ELSE << >>)
     ELSE << >>)
    \o (IF self.distance > 0
        THEN <<IF args.bump THEN <<"p", "r", "e">> ELSE <<"p", "o", "s", "t">>,
               IntStr(self.distance)>>
        ELSE << >>)

(* The metadata list of the call *)
CallMetaParts == MetaParts(self, args.metadata, args.dirty, args.tagged_metadata)

(* C15: for SemVer and PVP Version.serialize builds the prerelease list    *)
(* [stage, revision if present] when the stage is set, followed, when      *)
(* distance > 0, by "pre" (bump) or "post" (no bump) and the distance.     *)
(* SemVer renders the base, "-" and the prerelease parts joined with ".",  *)
(* "+" and the metadata parts joined with ".", each group left out when    *)
(* empty; PVP renders the base, then "-" and all prerelease parts followed *)
(* by all metadata parts, joined with "-".  Version("1.0.0",               *)
(* stage=("rc", 1), distance=2) gives "1.0.0-rc.1.post.2" in SemVer.       *)
C15_SemVerAndPvpSegments ==
    (IsBuiltInSerialize /\ TargetStyle \in {"SemVer", "Pvp"} /\ IsOk(ret)) =>
        /\ TargetStyle = "SemVer" =>
              ret.val = RenderedBase
                        \o (IF ClaimedPreParts # << >>
                            THEN <<"-">> \o Join(ClaimedPreParts, <<".">>) ELSE << >>)
                        \o (IF CallMetaParts # << >>
                            THEN <<"+">> \o Join(CallMetaParts, <<".">>) ELSE << >>)
        /\ TargetStyle = "Pvp" =>
              ret.val = RenderedBase
                        \o (IF ClaimedPreParts \o CallMetaParts # << >>
                            THEN <<"-">> \o Join(ClaimedPreParts \o CallMetaParts, <<"-">>)
                            ELSE << >>)
        /\ (/\ self = NewVersion(<<"1", ".", "0", ".", "0">>, Some(<< <<"r", "c">>, Some(1) >>), 2,
                                 None, None, None, None, None, None)
            /\ TargetStyle = "SemVer" /\ ~args.bump) =>
              ret.val = <<"1", ".", "0", ".", "0", "-", "r", "c", ".", "1", ".", "p", "o", "s", "t", ".", "2">>

(* C15 witness: a release candidate at distance 1 with commit and dirty    *)
(* flag, rendered in PVP with bump.                                        *)
C15_Witness ==
    /\ IsBuiltInSerialize /\ TargetStyle = "Pvp" /\ args.bump
    /\ args.dirty /\ ~args.tagged_metadata /\ IsNone(args.metadata)
    /\ self.base = <<"1", ".", "2", ".", "3">>
    /\ self.stage = Some(<<"r", "c">>) /\ self.revision = Some(1)
    /\ self.distance = 1
    /\ self.commit = Some(<<"g", "1", "f">>) /\ self.dirty = Some(TRUE)
    /\ ret = Ok(<<"1", ".", "2", ".", "3", "-", "r", "c", "-", "2", "-", "p", "r", "e", "-", "1",
                  "-", "g", "1", "f", "-", "d", "i", "r", "t", "y">>)

-----------------------------------------------------------------------------
(* Claims about the metadata segments of Version.serialize *)

(* The metadata segments read off the returned string: in PEP 440 and      *)
(* SemVer the "."-separated parts after "+", in PVP the "-"-separated      *)
(* parts after the base and the prerelease parts.                          *)
ObservedMeta ==
    IF TargetStyle = "Pvp"
    THEN LET rest == Slice(ret.val, Len(RenderedBase), Len(ret.val))
             all  == IF rest = << >> THEN << >> ELSE Split(Tail(rest), "-")
         IN  Slice(all, Len(ClaimedPreParts), Len(all))
    ELSE LET plus == FirstOf({ k \in 1..Len(ret.val) : ret.val[k] = "+" })
         IN  IF plus = 0 THEN << >> ELSE Split(Slice(ret.val, plus, Len(ret.val)), ".")

(* The segments C16 lists, in its order *)
ClaimedMetaParts ==
    (IF args.tagged_metadata /\ IsSet(self.tagged_metadata)
     THEN <<Get(self.tagged_metadata)>> ELSE << >>)
    \o (IF (args.metadata = Some(TRUE) \/ self.distance > 0) /\ IsSet(self.commit)
        THEN <<Get(self.commit)>> ELSE << >>)
    \o (IF args.dirty /\ self.dirty = Some(TRUE) THEN <<<<"d", "i", "r", "t", "y">>>> ELSE << >>)

(* C16 as stated: the metadata segments of a built-in serialization are,   *)
(* in this order, the tagged_metadata iff the tagged_metadata flag is set  *)
(* and the version has tagged metadata, the commit iff the metadata flag   *)
(* is explicitly true or distance > 0, and "dirty" iff the dirty flag is   *)
(* set and the version is dirty.                                           *)
C16_MetadataSegmentsWhateverTheSwitch ==
    (IsBuiltInSerialize /\ IsOk(ret)) => ObservedMeta = ClaimedMetaParts

(* C16 amended: with metadata=False there is no metadata segment; with     *)
(* metadata unset or true the segments are, in this order, the             *)
(* tagged_metadata iff the flag is set and the version has tagged          *)
(* metadata, the commit iff the version has one and metadata is true or    *)
(* distance > 0, and "dirty" iff the dirty flag is set and the version is  *)
(* dirty.                                                                  *)
C16_MetadataSegmentsUnlessSwitchedOff ==
    (IsBuiltInSerialize /\ IsOk(ret)) =>
        ObservedMeta = IF args.metadata = Some(FALSE) THEN << >> ELSE ClaimedMetaParts

(* C16 witness: all three segments rendered, in order, at distance 0 *)
C16_Witness ==
    /\ IsBuiltInSerialize /\ TargetStyle = "SemVer"
    /\ args.metadata = Some(TRUE) /\ args.dirty /\ args.tagged_metadata
    /\ self.distance = 0 /\ IsNone(self.stage)
    /\ ObservedMeta = << <<"m", "1">>, <<"g", "1", "f">>, <<"d", "i", "r", "t", "y">> >>
    /\ ret = Ok(<<"1", ".", "2", ".", "3", "+", "m", "1", ".", "g", "1", "f", ".",
                  "d", "i", "r", "t", "y">>)

InMeta(segment) == \E k \in 1..Len(ObservedMeta) : ObservedMeta[k] = segment

(* C17 as stated, from the documentation of metadata and dirty: with       *)
(* metadata unset the commit and the dirty flag appear only if distance is *)
(* nonzero; metadata=True includes them even at distance 0; metadata=False *)
(* gives no metadata part at all, whatever dirty and tagged_metadata are.  *)
C17_MetadataArgumentAsDocumented ==
    (IsBuiltInSerialize /\ IsOk(ret)) =>
        /\ (IsNone(args.metadata) /\ self.distance = 0) =>
              /\ IsSet(self.commit) => ~InMeta(Get(self.commit))
              /\ ~InMeta(<<"d", "i", "r", "t", "y">>)
        /\ (args.metadata = Some(TRUE) \/ (IsNone(args.metadata) /\ self.distance > 0)) =>
              /\ IsSet(self.commit) => InMeta(Get(self.commit))
              /\ (args.dirty /\ self.dirty = Some(TRUE)) => InMeta(<<"d", "i", "r", "t", "y">>)
        /\ args.metadata = Some(FALSE) => ObservedMeta = << >>

-----------------------------------------------------------------------------
(* Claims about Version.serialize with a custom format *)

IsFormatSerialize == op = "Version.serialize" /\ IsSet(args.format)

(* self.bump() fails: there is a distance to bump for, no stage, and the   *)
(* base is no number.                                                      *)
BumpFails ==
    args.bump /\ self.distance > 0 /\ IsNone(self.stage) /\ ~IsNumericBase(self.base)

TextOr(o, default) == IF IsSet(o) THEN Get(o) ELSE default

(* The template with its slots substituted, or what the callback returns   *)
(* for the possibly-bumped version.                                        *)
Substituted ==
    LET id       == Get(args.format).id
        revision == IF IsSet(RenderedRevision) THEN IntStr(Get(RenderedRevision)) ELSE << >>
    IN  CASE id = "v{base}" -> <<"v">> \o RenderedBase
          [] id = "{base}+{distance}.{commit}.{dirty}" ->
                RenderedBase \o <<"+">> \o IntStr(self.distance) \o <<".">>
                \o TextOr(self.commit, << >>) \o <<".">>
                \o (IF self.dirty = Some(TRUE) THEN <<"d", "i", "r", "t", "y">>
                    ELSE <<"c", "l", "e", "a", "n">>)
          [] id = "{stage}{revision}/{branch_escaped}" ->
                TextOr(self.stage, << >>) \o revision \o <<"/">>
                \o escape_branch(TextOr(self.branch, << >>))
          [] id = "lambda v: v.base" -> RenderedBase
          [] id = "resets_its_argument" -> RenderedBase \o <<"+">> \o IntStr(self.distance)

(* C18: with a custom format the built-in composition is bypassed: the     *)
(* result is exactly the template with its slots substituted, or the       *)
(* callback's return value for the possibly-bumped version; metadata,      *)
(* dirty and tagged_metadata have no effect; with a style the result is    *)
(* checked against it and a non-conforming one raises; without a style it  *)
(* is returned without validation.  (When bump applies and self.bump()     *)
(* fails, the call fails before any formatting.)                           *)
C18_CustomFormat ==
    IsFormatSerialize =>
        IF BumpFails THEN ret.kind = "ValueError"
        ELSE /\ ret = IF IsSet(args.style) /\ ~IsOk(check_version(Substituted, Get(args.style)))
                      THEN Raise("ValueError") ELSE Ok(Substituted)
             /\ ret = Version_serialize(self, None, FALSE, args.format, args.style, args.bump,
                                        FALSE).ret

(* C18 witness: a template result that is no PEP 440 version was returned  *)
(* as it is without a style, with metadata, dirty and tagged_metadata set. *)
C18_Witness ==
    /\ IsFormatSerialize
    /\ Get(args.format).id = "{stage}{revision}/{branch_escaped}"
    /\ IsNone(args.style) /\ args.bump
    /\ args.metadata = Some(TRUE) /\ args.dirty /\ args.tagged_metadata
    /\ self.stage = Some(<<"r", "c">>) /\ IsNone(self.revision) /\ self.distance = 1
    /\ IsSet(self.branch)
    /\ ret = Ok(<<"r", "c", "2", "/", "f", "i", "x", "a", "1">>)

-----------------------------------------------------------------------------
(* Claims about check_version *)

IsCheckCall == op = "check_version"

(* Dot-separated identifiers, each non-empty and of letters, digits, "-" *)
IsIdentifiers(t) ==
    \A k \in 1..Len(Split(t, ".")) :
        Split(t, ".")[k] # << >> /\ AllIn(Split(t, ".")[k], AlNum \cup {"-"})

(* The SemVer grammar read off the string: three dot-separated numbers,    *)
(* then "-" and identifiers, then "+" and identifiers, both optional.      *)
MatchesSemVerGrammar(s) ==
    LET head    == BeforeFirst(s, "+")
        release == BeforeFirst(head, "-")
    IN  /\ Len(Split(release, ".")) = 3
        /\ IsNumericBase(release)
        /\ Len(release) < Len(head) => IsIdentifiers(Slice(head, Len(release) + 1, Len(head)))
        /\ Len(head) < Len(s) => IsIdentifiers(Slice(s, Len(head) + 1, Len(s)))

(* A segment before the first "+", split on "." and "-", that is all       *)
(* digits, more than one, and starts with 0.                               *)
HasLeadingZeroSegment(s) ==
    LET segs == SplitFrom(BeforeFirst(s, "+"), {".", "-"}, << >>)
    IN  \E k \in 1..Len(segs) :
            Len(segs[k]) > 1 /\ segs[k][1] = "0" /\ AllIn(segs[k], Digit)

(* C19: check_version(s, SemVer) accepts s exactly when s matches the      *)
(* SemVer grammar and no segment of the part before the first "+", split   *)
(* on "." and "-", is an all-numeric string of several digits starting     *)
(* with 0: "1.2.3-01" is rejected, "1.2.3-1" and "1.2.3-0" are accepted,   *)
(* numeric identifiers with a leading zero after "+" are accepted.  A      *)
(* rejection raises ValueError with a message naming the string and the    *)
(* style.                                                                  *)
C19_SemVerLeadingZeroRule ==
    (IsCheckCall /\ args.style = "SemVer") =>
        /\ IsOk(ret) <=> (MatchesSemVerGrammar(args.version) /\ ~HasLeadingZeroSegment(args.version))
        /\ args.version = <<"1", ".", "2", ".", "3", "-", "0", "1">> => ~IsOk(ret)
        /\ args.version \in { <<"1", ".", "2", ".", "3", "-", "1">>, <<"1", ".", "2", ".", "3", "-", "0">>,
                              <<"1", ".", "2", ".", "3", "+", "0", "1">>, <<"1", ".", "2", ".", "3", "-", "1", "+", "m", "1", ".", "0", "0", "7">> } => IsOk(ret)
        /\ ~IsOk(ret) =>
              ret = [kind |-> "ValueError",
                     val |-> <<"V", "e", "r", "s", "i", "o", "n", " ", "'">> \o args.version
                             \o <<"'", " ", "d", "o", "e", "s", " ", "n", "o", "t", " ", "c", "o", "n", "f", "o", "r", "m", " ", "t", "o", " ", "t", "h", "e", " ", "S", "e", "m", "a", "n", "t", "i", "c", " ", "V", "e", "r", "s", "i", "o", "n", "i", "n", "g", " ", "s", "t", "y", "l", "e">>]

(* C19 witness: "1.2.3-01" was rejected with the message naming it *)
C19_Witness ==
    /\ IsCheckCall /\ args.style = "SemVer"
    /\ args.version = <<"1", ".", "2", ".", "3", "-", "0", "1">>
    /\ MatchesSemVerGrammar(args.version)
    /\ ret.kind = "ValueError"
    /\ ret.val = <<"V", "e", "r", "s", "i", "o", "n", " ", "'", "1", ".", "2", ".", "3", "-", "0", "1", "'", " ", "d", "o", "e", "s", " ", "n", "o", "t", " ", "c", "o", "n", "f", "o", "r", "m", " ", "t", "o", " ", "t", "h", "e", " ", "S", "e", "m", "a", "n", "t", "i", "c", " ", "V", "e", "r", "s", "i", "o", "n", "i", "n", "g", " ", "s", "t", "y", "l", "e">>

-----------------------------------------------------------------------------
(* Claims about serialize_pep440 *)

IsPep440Call == op = "serialize_pep440"

(* The keys of the alias table *)
AliasedLabels == { <<"a", "l", "p", "h", "a">>, <<"b", "e", "t", "a">>, <<"c">>,
                   <<"p", "r", "e">>, <<"p", "r", "e", "v", "i", "e", "w">> }

(* The label as C20 states it: the alias when the label, whatever its      *)
(* case, is in the table, the label unchanged otherwise.                   *)
AliasOrUnchanged(stage) ==
    IF [k \in 1..Len(stage) |-> LowerOf(stage[k])] \in AliasedLabels
    THEN Pep440Label(stage) ELSE stage

(* The text of the call's arguments in the order of C20, with the stage    *)
(* label as given by label.                                                *)
Pep440Text(label) ==
    (IF IsSet(args.epoch) THEN IntStr(Get(args.epoch)) \o <<"!">> ELSE << >>)
    \o args.base
    \o (IF IsSet(args.stage)
        THEN label \o IntStr(IF IsSet(args.revision) THEN Get(args.revision) ELSE 0)
        ELSE << >>)
    \o (IF IsSet(args.post) THEN <<".", "p", "o", "s", "t">> \o IntStr(Get(args.post)) ELSE << >>)
    \o (IF IsSet(args.dev) THEN <<".", "d", "e", "v">> \o IntStr(Get(args.dev)) ELSE << >>)
    \o (IF args.metadata # << >> THEN <<"+">> \o Join(args.metadata, <<".">>) ELSE << >>)

(* The outcome of a serializer that rendered text *)
ValidOrRaises(text) ==
    IF IsOk(check_version(text, "Pep440")) THEN Ok(text) ELSE Raise("ValueError")

(* C20 as stated: serialize_pep440 maps the stage label, case-             *)
(* insensitively, through the alias table (alpha to a, beta to b; c, pre   *)
(* and preview to rc), passes a label that is not in the table through     *)
(* unchanged, renders a set stage without revision with revision 0, and    *)
(* puts out epoch and "!", base, stage and revision, ".post" and post,     *)
(* ".dev" and dev, "+" and the metadata joined with ".", in this order,    *)
(* each only if set.                                                       *)
C20_UnknownLabelUnchanged ==
    IsPep440Call =>
        ret = ValidOrRaises(Pep440Text(IF IsSet(args.stage)
                                       THEN AliasOrUnchanged(Get(args.stage)) ELSE << >>))

(* C20 amended: as stated, except that a label that is not in the table is *)
(* passed through in lower case.                                           *)
C20_UnknownLabelLowerCased ==
    IsPep440Call =>
        ret = ValidOrRaises(Pep440Text(IF IsSet(args.stage)
                                       THEN Pep440Label(Get(args.stage)) ELSE << >>))

(* C20 witness: the label "RC", which is not in the table, without         *)
(* revision, rendered as "rc0" between the base and the post segment.      *)
C20_Witness ==
    /\ IsPep440Call
    /\ args.stage = Some(<<"R", "C">>) /\ IsNone(args.revision)
    /\ args.post = Some(1) /\ args.dev = Some(0) /\ args.epoch = Some(0)
    /\ ret = Ok(<<"0", "!", "1", ".", "2", ".", "3", "r", "c", "0", ".", "p", "o", "s", "t", "1", ".", "d", "e", "v", "0", "+", "m", "1", ".", "g", "1", "f">>)

-----------------------------------------------------------------------------
(* Claims about Version equality and partial matching *)

IsEqCall == op = "Version.__eq__" /\ "base" \in DOMAIN args.other

IsPartialCall == op = "Version._matches_partial" /\ "base" \in DOMAIN args.other

VersionFields == {"base", "stage", "revision", "distance", "commit", "dirty",
                  "tagged_metadata", "epoch", "branch", "timestamp"}

(* A field of the version matched against counts as unset when it is None; *)
(* base is never None, and distance counts as unset when it is 0.          *)
FieldUnset(other, f) ==
    IF f = "base" THEN FALSE
    ELSE IF f = "distance" THEN other[f] = 0
    ELSE other[f] = None

(* C21: v == o holds exactly when all ten fields are equal;                *)
(* v._matches_partial(o) holds exactly when every field of o is unset      *)
(* (None, or 0 for distance) or equal to the field of v, so that an        *)
(* explicit dirty=False of o is no wildcard; v == o implies                *)
(* v._matches_partial(o), and v._matches_partial(v) holds.                 *)
C21_EqualityAndPartialMatch ==
    /\ IsEqCall =>
         ret = Ok(\A f \in VersionFields : self[f] = args.other[f])
    /\ IsPartialCall =>
         ret = Ok(\A f \in VersionFields :
                      FieldUnset(args.other, f) \/ self[f] = args.other[f])
    /\ IsPartialCall /\ args.other.dirty = Some(FALSE) /\ ret = Ok(TRUE) =>
         self.dirty = Some(FALSE)
    /\ IsEqCall /\ ret = Ok(TRUE) =>
         Version_matches_partial(self, args.other) = Ok(TRUE)
    /\ IsPartialCall /\ args.other = self => ret = Ok(TRUE)

(* C21 witness: a version with a distance matches one that is the same but *)
(* for a distance of 0, and is not matched by it: the relation is not      *)
(* symmetric.                                                              *)
C21_Witness ==
    /\ IsPartialCall
    /\ ret = Ok(TRUE)
    /\ args.other.distance = 0
    /\ self.distance # 0
    /\ Version_matches_partial(args.other, self) = Ok(FALSE)

-----------------------------------------------------------------------------
(* Claims about the ordering of Versions *)

(* a < b or a > b between two Versions whose bases packaging can read,     *)
(* with packaging installed                                                *)
IsOrderingOf(name) ==
    /\ op = name
    /\ "base" \in DOMAIN args.other
    /\ args.packaging
    /\ IsOk(pv_Version(self.base))
    /\ IsOk(pv_Version(args.other.base))

(* The value of an optional field, the stated default standing in for an   *)
(* unset one                                                               *)
OrDefault(value, default) == IF value = None THEN default ELSE value[1]

(* Every field of a is strictly below the same field of b: bases as        *)
(* releases, texts by code point, numbers by value, false below true, and  *)
(* an unset timestamp below every set one.                                 *)
EveryFieldLess(a, b) ==
    /\ SeqLess(pv_Version(a.base).val, pv_Version(b.base).val)
    /\ StrLess(OrDefault(a.stage, << >>), OrDefault(b.stage, << >>))
    /\ OrDefault(a.revision, 0) < OrDefault(b.revision, 0)
    /\ a.distance < b.distance
    /\ StrLess(OrDefault(a.commit, << >>), OrDefault(b.commit, << >>))
    /\ ~OrDefault(a.dirty, FALSE) /\ OrDefault(b.dirty, FALSE)
    /\ StrLess(OrDefault(a.tagged_metadata, << >>), OrDefault(b.tagged_metadata, << >>))
    /\ OrDefault(a.epoch, 0) < OrDefault(b.epoch, 0)
    /\ StrLess(OrDefault(a.branch, << >>), OrDefault(b.branch, << >>))
    /\ StrLess(OrDefault(a.timestamp, << >>), OrDefault(b.timestamp, << >>))

(* C22: a < b is true exactly when every field of a is strictly less than  *)
(* the same field of b, unset fields replaced by their defaults, and false *)
(* otherwise; so two versions that differ only in base do not compare      *)
(* less-than in either direction.                                          *)
C22_LessThanIsFieldwise ==
    IsOrderingOf("Version.__lt__") => ret = Ok(EveryFieldLess(self, args.other))

(* C26: the ordering derived by total_ordering is consistent: a > b        *)
(* exactly when b < a, so a > b and b > a are never both true.             *)
C26_GreaterIsReverseLess ==
    IsOrderingOf("Version.__gt__") =>
        /\ ret = Ok(TRUE) <=> Version_lt(args.other, self, args.packaging) = Ok(TRUE)
        /\ ~(ret = Ok(TRUE) /\ Version_gt(args.other, self, args.packaging) = Ok(TRUE))

-----------------------------------------------------------------------------
(* Claims about get_version *)

IsGetVersionCall == op = "get_version"

(* What the k-th source has to offer: nothing (no callback, a callback     *)
(* returning None, no installed package), a version, or an exception       *)
Candidate(k) ==
    LET choice == IF k = 1 THEN args.first_choice ELSE args.third_choice
    IN  IF k = 2
        THEN IF args.installed = None THEN [found |-> "nothing"]
             ELSE [found |-> "version",
                   version |-> IF args.parser = "Version.parse"
                               THEN Version_parse(args.installed[1], VERSION_SOURCE_PATTERN).val
                               ELSE PlainVersion(args.installed[1])]
        ELSE IF choice = None THEN [found |-> "nothing"]
        ELSE IF choice[1].kind # "ok" THEN [found |-> "exception"]
        ELSE IF choice[1].val = None THEN [found |-> "nothing"]
        ELSE [found |-> "version", version |-> choice[1].val[1]]

(* v partially matches an entry of the ignore list *)
Ignored(v) ==
    \E k \in 1..Len(args.ignore) : Version_matches_partial(v, args.ignore[k]) = Ok(TRUE)

(* The k-th source offers a version that is not ignored *)
Yields(k) == Candidate(k).found = "version" /\ ~Ignored(Candidate(k).version)

(* C23: get_version returns the version of the first of first_choice(),    *)
(* parser(installed version) and third_choice() that yields a version not  *)
(* partially matching an ignore entry, whatever the sources after it would *)
(* do; sources offering nothing or an ignored version are passed over;     *)
(* when no source is accepted the fallback is returned, ignored or not;    *)
(* only the fallback is ever returned while matching an ignore entry.      *)
C23_FirstAcceptedSourceElseFallback ==
    IsGetVersionCall =>
        /\ \A k \in 1..3 :
             (Yields(k) /\ \A j \in 1..(k - 1) : ~Yields(j) /\ Candidate(j).found # "exception")
                 => ret = Ok(Candidate(k).version)
        /\ (\A k \in 1..3 : ~Yields(k) /\ Candidate(k).found # "exception")
                 => ret = Ok(args.fallback)
        /\ (IsOk(ret) /\ Ignored(ret.val))
                 => ret.val = args.fallback /\ \A k \in 1..3 : ~Yields(k)

(* C23 witness: the first choice is ignored, the installed version is      *)
(* returned, and the third choice, which would raise, is not called.       *)
C23_Witness ==
    /\ IsGetVersionCall
    /\ Candidate(1).found = "version"
    /\ ~Yields(1)
    /\ Yields(2)
    /\ Candidate(3).found = "exception"
    /\ ret = Ok(Candidate(2).version)

-----------------------------------------------------------------------------
(* Claims about the post and dev stages in the PEP 440 style *)

(* The text C24 gives for a version at distance 0 whose stage is "post" or *)
(* "dev", up to the metadata: epoch, base, the native segment and the      *)
(* revision, 0 standing in for an absent one                               *)
ClaimedNativeSegment ==
    (IF self.epoch = None THEN << >> ELSE IntStr(self.epoch[1]) \o <<"!">>)
    \o self.base
    \o (IF IsPostStage THEN <<".", "p", "o", "s", "t">> ELSE <<".", "d", "e", "v">>)
    \o IntStr(IF self.revision = None THEN 0 ELSE self.revision[1])

(* C24: Version.serialize in the PEP 440 style, for a stage "post" (resp.  *)
(* "dev") and distance 0, renders base + ".post" + revision (resp. ".dev"  *)
(* + revision), an absent revision being rendered as 0, so that stage      *)
(* ("post", None) gives base + ".post0"; only metadata may follow.         *)
C24_PostAndDevAsNativeSegments ==
    (/\ IsBuiltInSerialize
     /\ TargetStyle = "Pep440"
     /\ IsPostStage \/ IsDevStage
     /\ self.distance = 0
     /\ IsOk(ret))
        => /\ StartsWith(ret.val, ClaimedNativeSegment)
           /\ \/ Len(ret.val) = Len(ClaimedNativeSegment)
              \/ ret.val[Len(ClaimedNativeSegment) + 1] = "+"

-----------------------------------------------------------------------------
(* Claims about the two index conventions of bump_version *)

(* The number of segments of the base of the call *)
SegmentCount == Len(Split(args.base, "."))

(* C25: for a base of n segments and 0 <= i < n, bump_version(base, i) and *)
(* bump_version(base, i - n) give the same outcome: the segments to the    *)
(* right of the incremented one are set to 0 in both index conventions.    *)
C25_IndexConventionsAgree ==
    IsBumpVersionCall =>
        /\ (0 <= args.index /\ args.index < SegmentCount) =>
               ret = bump_version(args.base, args.index - SegmentCount)
        /\ (0 - SegmentCount <= args.index /\ args.index < 0) =>
               ret = bump_version(args.base, args.index + SegmentCount)

(* C25 witness: the first of three segments is bumped, by index 0 as by    *)
(* index -3, and the two segments to its right are reset.                  *)
C25_Witness ==
    /\ IsBumpVersionCall
    /\ args.base = <<"1", ".", "9", ".", "3">>
    /\ args.index = 0
    /\ ret = Ok(<<"2", ".", "0", ".", "0">>)
    /\ bump_version(args.base, 0 - 3) = ret

-----------------------------------------------------------------------------
(* Claims about the leading "v" of the input of Version.parse *)

(* A parse call whose input does not start with "v" *)
IsUnprefixedParse == IsParseCall /\ ~StartsWith(args.version, <<"v">>)

(* Version.parse("v" + s) for the input s of the call, same pattern *)
ParsedWithV == Version_parse(<<"v">> \o args.version, PatternOf(args.pattern))

(* C27 as stated: for every string s that does not start with "v",         *)
(* Version.parse(s) and Version.parse("v" + s) return equal Versions.      *)
C27_PrefixNeverMatters ==
    IsUnprefixedParse => ret = ParsedWithV

(* C27 amended: for a string s that does not start with "v",               *)
(* Version.parse(s) and Version.parse("v" + s) return equal Versions when  *)
(* the matcher accepts "v" + s; when it rejects "v" + s, both calls fall   *)
(* back on Version(input), so that the results are Version(s) and          *)
(* Version("v" + s), whose bases differ by the prefix.                     *)
C27_PrefixMattersOnlyInFallback ==
    IsUnprefixedParse =>
        IF IsOk(MatchOfInput)
        THEN ret = ParsedWithV
        ELSE /\ ret = Ok(PlainVersion(args.version))
             /\ ParsedWithV = Ok(PlainVersion(<<"v">> \o args.version))
             /\ ret # ParsedWithV

(* C27 witness: "1.2.3" is parsed as "v1.2.3" is, to the base "1.2.3" *)
C27_Witness ==
    /\ IsUnprefixedParse
    /\ args.version = <<"1", ".", "2", ".", "3">>
    /\ args.pattern = "VERSION_SOURCE_PATTERN"
    /\ IsOk(MatchOfInput)
    /\ ret = ParsedWithV
    /\ ret.val.base = <<"1", ".", "2", ".", "3">>

=============================================================================
